---- MODULE Spec2Model ----
(***************************************************************************)
(* Kingdom Wars match engine (engine.js): the turn loop of runGame, the    *)
(* action validator, the combat and economy resolver and the elimination   *)
(* record, with the agents behind the bot URLs as the environment.         *)
(***************************************************************************)
EXTENDS Integers, Sequences, FiniteSets, TLC

VARIABLES
    pc,                 \* position of runGame's control flow
    turn,               \* game.turn
    towers,             \* game.towers: playerId -> Tower
    previousAttacks,    \* game.previousAttacks
    diplomacyMessages,  \* game.diplomacyMessages: playerId -> received messages
    eliminations,       \* game.eliminations: sequence of {tower, turn}
    pending,            \* the towers the running for-of loop has still to visit
    allActions,         \* combatPhase's allActions: playerId -> validated actions
    attacks,            \* combatPhase's attacks queue
    cursor,             \* index of the next attack of the queue to resolve
    lastCall,           \* the request of the latest sendRequest
    lastResult,         \* what that sendRequest resolved to
    winner              \* what runGame returns: a playerId, or 0 for null

vars == <<pc, turn, towers, previousAttacks, diplomacyMessages, eliminations,
          pending, allActions, attacks, cursor, lastCall, lastResult, winner>>

(***************************************************************************)
(* CONFIG                                                                  *)
(***************************************************************************)
STARTING_HP == 100
STARTING_ARMOR == 0
STARTING_RESOURCES == 0
STARTING_LEVEL == 1
MAX_LEVEL == 6
FATIGUE_START_TURN == 25
MAX_TURNS == 100
\* runGame(args.slice(0, 4)) after the arguments are padded to 4
NumTowers == 4

PlayerIds == 1..NumTowers

(***************************************************************************)
(* JSON numbers.  An agent may send any JSON value where a number is       *)
(* expected; the numbers are kept as twice their value, so that halves     *)
(* (0.5, 22.5) exist and Math.floor has something to do.                   *)
(***************************************************************************)
Num(n) == [isNumber |-> TRUE, twice |-> 2 * n]
Half(n) == [isNumber |-> TRUE, twice |-> n]
NotANumber == [isNumber |-> FALSE, twice |-> 0]

\* typeof x === 'number'
IsNumber(x) == x.isNumber
\* x <= 0
NonPositive(x) == x.twice <= 0
\* Math.floor(x)
MathFloor(x) == x.twice \div 2
\* x === n for an integer n
NumEquals(x, n) == x.isNumber /\ x.twice = 2 * n

(***************************************************************************)
(* Cost calculations                                                       *)
(***************************************************************************)
\* upgradeCost with Math.round for Math.floor
upgradeCostRounded(level) ==
    (2 * 50 * 7 ^ (level - 1) + 4 ^ (level - 1)) \div (2 * 4 ^ (level - 1))

\* Math.floor(50 * Math.pow(1.75, level - 1)); 1.75 = 7/4 is exact in binary
upgradeCost(level) == (50 * 7 ^ (level - 1)) \div (4 ^ (level - 1))

\* Math.floor(20 * Math.pow(1.5, level - 1))
resourcesPerTurn(level) == (20 * 3 ^ (level - 1)) \div (2 ^ (level - 1))

\* fatigueDamage counting the fatigue turns from 0
fatigueDamageFromZero(t) ==
    IF t < FATIGUE_START_TURN THEN 0
    ELSE (t - FATIGUE_START_TURN) * 5

fatigueDamage(t) ==
    IF t < FATIGUE_START_TURN THEN 0
    ELSE (t - FATIGUE_START_TURN + 1) * 5

Min(a, b) == IF a <= b THEN a ELSE b
Max(a, b) == IF a >= b THEN a ELSE b

(***************************************************************************)
(* Tower and Game                                                          *)
(***************************************************************************)
NewTower(playerId, botUrl) ==
    [playerId |-> playerId, botUrl |-> botUrl, hp |-> STARTING_HP,
     armor |-> STARTING_ARMOR, resources |-> STARTING_RESOURCES,
     level |-> STARTING_LEVEL]

isAlive(tower) == tower.hp > 0

\* toPublicView with the resources of the tower
toPublicViewFull(tower) ==
    [playerId |-> tower.playerId, hp |-> tower.hp, armor |-> tower.armor,
     resources |-> tower.resources, level |-> tower.level]

toPublicView(tower) ==
    [playerId |-> tower.playerId, hp |-> tower.hp, armor |-> tower.armor,
     level |-> tower.level]

toPrivateView(tower) ==
    [playerId |-> tower.playerId, hp |-> tower.hp, armor |-> tower.armor,
     resources |-> tower.resources, level |-> tower.level]

\* The playerIds, from `from` on and in tower order, of the towers with hp > 0
RECURSIVE FilterIds(_, _)
FilterIds(ts, from) ==
    IF from > NumTowers THEN <<>>
    ELSE (IF isAlive(ts[from]) THEN <<from>> ELSE <<>>) \o FilterIds(ts, from + 1)

\* game.getAliveTowers(), as the playerIds in tower order
getAliveTowers(ts) == FilterIds(ts, 1)

\* game.towers.find((t) => t.playerId === id): the playerId found, or 0
FindTower(ts, id) ==
    IF \E p \in PlayerIds : NumEquals(id, p)
    THEN CHOOSE p \in PlayerIds : NumEquals(id, p)
    ELSE 0

IsEliminated(elims, playerId) ==
    \E k \in 1..Len(elims) : elims[k].tower = playerId

recordElimination(elims, playerId, t) ==
    IF ~IsEliminated(elims, playerId)
    THEN Append(elims, [tower |-> playerId, turn |-> t])
    ELSE elims

(***************************************************************************)
(* validateActions                                                         *)
(***************************************************************************)
ValidationStart ==
    [validated |-> <<>>, totalCost |-> 0, hasArmor |-> FALSE,
     hasUpgrade |-> FALSE, attackTargets |-> {}]

ArmorAction(amount) ==
    [type |-> "armor", amount |-> amount, targetId |-> 0, troopCount |-> 0]
UpgradeAction ==
    [type |-> "upgrade", amount |-> 0, targetId |-> 0, troopCount |-> 0]
AttackAction(targetId, troops) ==
    [type |-> "attack", amount |-> 0, targetId |-> targetId, troopCount |-> troops]

\* validateArmor with the armor slot taken before the amount is checked
validateArmorSlotFirst(st, action, tower) ==
    IF st.hasArmor THEN st
    ELSE IF ~IsNumber(action.amount) \/ NonPositive(action.amount)
    THEN [st EXCEPT !.hasArmor = TRUE]
    ELSE LET amount == MathFloor(action.amount) IN
         IF st.totalCost + amount > tower.resources
         THEN [st EXCEPT !.hasArmor = TRUE]
         ELSE [st EXCEPT !.hasArmor = TRUE,
                         !.totalCost = @ + amount,
                         !.validated = Append(@, ArmorAction(amount))]

validateArmor(st, action, tower) ==
    IF st.hasArmor THEN st
    ELSE IF ~IsNumber(action.amount) \/ NonPositive(action.amount) THEN st
    ELSE LET amount == MathFloor(action.amount) IN
         IF st.totalCost + amount > tower.resources THEN st
         ELSE [st EXCEPT !.hasArmor = TRUE,
                         !.totalCost = @ + amount,
                         !.validated = Append(@, ArmorAction(amount))]

\* validateUpgrade that never sets hasUpgrade
validateUpgradeNoFlag(st, action, tower) ==
    IF st.hasUpgrade THEN st
    ELSE IF tower.level >= MAX_LEVEL THEN st
    ELSE LET cost == upgradeCost(tower.level) IN
         IF st.totalCost + cost > tower.resources THEN st
         ELSE [st EXCEPT !.totalCost = @ + cost,
                         !.validated = Append(@, UpgradeAction)]

\* validateUpgrade without the check of MAX_LEVEL
validateUpgradeNoCap(st, action, tower) ==
    IF st.hasUpgrade THEN st
    ELSE LET cost == upgradeCost(tower.level) IN
         IF st.totalCost + cost > tower.resources THEN st
         ELSE [st EXCEPT !.hasUpgrade = TRUE,
                         !.totalCost = @ + cost,
                         !.validated = Append(@, UpgradeAction)]

validateUpgrade(st, action, tower) ==
    IF st.hasUpgrade THEN st
    ELSE IF tower.level >= MAX_LEVEL THEN st
    ELSE LET cost == upgradeCost(tower.level) IN
         IF st.totalCost + cost > tower.resources THEN st
         ELSE [st EXCEPT !.hasUpgrade = TRUE,
                         !.totalCost = @ + cost,
                         !.validated = Append(@, UpgradeAction)]

\* validateAttack without the check of the running total
validateAttackNoBudget(st, action, tower, ts) ==
    IF ~IsNumber(action.targetId) THEN st
    ELSE IF ~IsNumber(action.troopCount) \/ NonPositive(action.troopCount) THEN st
    ELSE IF action.targetId \in st.attackTargets THEN st
    ELSE LET target == FindTower(ts, action.targetId) IN
         IF target = 0 \/ ~isAlive(ts[target]) THEN st
         ELSE IF target = tower.playerId THEN st
         ELSE LET troops == MathFloor(action.troopCount) IN
              [st EXCEPT !.attackTargets = @ \cup {action.targetId},
                         !.totalCost = @ + troops,
                         !.validated = Append(@, AttackAction(target, troops))]

\* validateAttack without the check that the target is alive
validateAttackAnyTarget(st, action, tower, ts) ==
    IF ~IsNumber(action.targetId) THEN st
    ELSE IF ~IsNumber(action.troopCount) \/ NonPositive(action.troopCount) THEN st
    ELSE IF action.targetId \in st.attackTargets THEN st
    ELSE LET target == FindTower(ts, action.targetId) IN
         IF target = 0 THEN st
         ELSE IF target = tower.playerId THEN st
         ELSE LET troops == MathFloor(action.troopCount) IN
              IF st.totalCost + troops > tower.resources THEN st
              ELSE [st EXCEPT !.attackTargets = @ \cup {action.targetId},
                              !.totalCost = @ + troops,
                              !.validated = Append(@, AttackAction(target, troops))]

\* validateAttack with the target marked as used before the budget is checked
validateAttackMarksFirst(st, action, tower, ts) ==
    IF ~IsNumber(action.targetId) THEN st
    ELSE IF ~IsNumber(action.troopCount) \/ NonPositive(action.troopCount) THEN st
    ELSE IF action.targetId \in st.attackTargets THEN st
    ELSE LET target == FindTower(ts, action.targetId) IN
         IF target = 0 \/ ~isAlive(ts[target]) THEN st
         ELSE IF target = tower.playerId THEN st
         ELSE LET troops == MathFloor(action.troopCount) IN
              IF st.totalCost + troops > tower.resources
              THEN [st EXCEPT !.attackTargets = @ \cup {action.targetId}]
              ELSE [st EXCEPT !.attackTargets = @ \cup {action.targetId},
                              !.totalCost = @ + troops,
                              !.validated = Append(@, AttackAction(target, troops))]

validateAttack(st, action, tower, ts) ==
    IF ~IsNumber(action.targetId) THEN st
    ELSE IF ~IsNumber(action.troopCount) \/ NonPositive(action.troopCount) THEN st
    ELSE IF action.targetId \in st.attackTargets THEN st
    ELSE LET target == FindTower(ts, action.targetId) IN
         IF target = 0 \/ ~isAlive(ts[target]) THEN st
         ELSE IF target = tower.playerId THEN st
         ELSE LET troops == MathFloor(action.troopCount) IN
              IF st.totalCost + troops > tower.resources THEN st
              ELSE [st EXCEPT !.attackTargets = @ \cup {action.targetId},
                              !.totalCost = @ + troops,
                              !.validated = Append(@, AttackAction(target, troops))]

\* One iteration of validateActions' loop
validateOne(st, action, tower, ts) ==
    IF ~action.isObject THEN st
    ELSE IF action.type = "armor" THEN validateArmor(st, action, tower)
    ELSE IF action.type = "upgrade" THEN validateUpgrade(st, action, tower)
    ELSE IF action.type = "attack" THEN validateAttack(st, action, tower, ts)
    ELSE st

RECURSIVE validateLoop(_, _, _, _)
validateLoop(st, actions, tower, ts) ==
    IF actions = <<>> THEN st
    ELSE validateLoop(validateOne(st, Head(actions), tower, ts),
                      Tail(actions), tower, ts)

validateActions(actions, tower, ts) ==
    validateLoop(ValidationStart, actions, tower, ts).validated

(***************************************************************************)
(* sendRequest: what a call resolves to.  A transport error, a timeout and *)
(* a body that is not JSON all resolve to {success: false}.                *)
(***************************************************************************)
Reply(items) == [success |-> TRUE, isArray |-> TRUE, status |-> "", data |-> items]
NotAnArray == [success |-> TRUE, isArray |-> FALSE, status |-> "", data |-> <<>>]
Failure == [success |-> FALSE, isArray |-> FALSE, status |-> "", data |-> <<>>]
HealthReply(status) ==
    [success |-> TRUE, isArray |-> FALSE, status |-> status, data |-> <<>>]

NoCall == [path |-> "", playerId |-> 0]

(***************************************************************************)
(* The requests negotiationPhase and combatPhase build                     *)
(***************************************************************************)
RECURSIVE EnemyViews(_, _, _)
EnemyViews(ts, self, from) ==
    IF from > NumTowers THEN <<>>
    ELSE (IF isAlive(ts[from]) /\ from # self
          THEN <<toPublicView(ts[from])>> ELSE <<>>)
         \o EnemyViews(ts, self, from + 1)

Inbox(msgs, playerId) ==
    IF 2 * playerId \in DOMAIN msgs THEN msgs[2 * playerId] ELSE <<>>

NegotiateRequest(i) ==
    [path |-> "/negotiate", playerId |-> i, turn |-> turn,
     playerTower |-> toPrivateView(towers[i]),
     enemyTowers |-> EnemyViews(towers, i, 1),
     combatActions |-> previousAttacks]

CombatRequest(i) ==
    [path |-> "/combat", playerId |-> i, turn |-> turn,
     playerTower |-> toPrivateView(towers[i]),
     enemyTowers |-> EnemyViews(towers, i, 1),
     diplomacy |-> Inbox(diplomacyMessages, i),
     previousAttacks |-> previousAttacks]

HealthRequest(i) == [path |-> "/healthz", playerId |-> i]

(***************************************************************************)
(* The agents.  A bot URL names a program; the URLs a match can be given   *)
(* are drawn from Bots, and what each program answers is below.            *)
(***************************************************************************)
RawArmor(x) ==
    [isObject |-> TRUE, type |-> "armor", amount |-> x,
     targetId |-> NotANumber, troopCount |-> NotANumber]
RawUpgrade ==
    [isObject |-> TRUE, type |-> "upgrade", amount |-> NotANumber,
     targetId |-> NotANumber, troopCount |-> NotANumber]
RawAttack(t, n) ==
    [isObject |-> TRUE, type |-> "attack", amount |-> NotANumber,
     targetId |-> t, troopCount |-> n]
\* null, a string, a number: not an object
RawNull ==
    [isObject |-> FALSE, type |-> "", amount |-> NotANumber,
     targetId |-> NotANumber, troopCount |-> NotANumber]
\* an object of no recognized type
RawOther ==
    [isObject |-> TRUE, type |-> "heal", amount |-> Num(1),
     targetId |-> NotANumber, troopCount |-> NotANumber]

Message(allyId, attackTargetId) ==
    [isNull |-> FALSE, allyId |-> allyId, attackTargetId |-> attackTargetId]
\* null where a message is expected
NullMessage ==
    [isNull |-> TRUE, allyId |-> NotANumber, attackTargetId |-> NotANumber]

SeqMax(s) == IF s = <<>> THEN 0
             ELSE CHOOSE m \in {s[k] : k \in 1..Len(s)} :
                      \A k \in 1..Len(s) : s[k] <= m

\* strategies/armorControl.ts
chooseStrongestEnemy(enemies) ==
    LET Before(a, b) ==
            IF a.level # b.level THEN a.level > b.level
            ELSE IF a.hp + a.armor # b.hp + b.armor
                 THEN a.hp + a.armor > b.hp + b.armor
                 ELSE a.playerId <= b.playerId
    IN CHOOSE k \in 1..Len(enemies) :
           \A j \in 1..Len(enemies) : Before(enemies[k], enemies[j])

chooseLastAttacker(request) ==
    LET myId == request.playerTower.playerId
        prev == request.previousAttacks
        incoming == {k \in 1..Len(prev) : prev[k].action.targetId = myId}
    IN IF incoming = {} THEN 0
       ELSE LET last == prev[CHOOSE k \in incoming : \A j \in incoming : j <= k]
                found == {k \in 1..Len(request.enemyTowers) :
                             /\ request.enemyTowers[k].playerId = last.playerId
                             /\ request.enemyTowers[k].hp > 0}
            IN IF found = {} THEN 0 ELSE CHOOSE k \in found : TRUE

\* armorControlCombat asking for all the armor it needs, owned or not
armorControlCombatUncapped(request) ==
    LET resources == Max(0, request.playerTower.resources)
        liveEnemies == SelectSeq(request.enemyTowers, LAMBDA e : e.hp > 0)
    IN
    IF resources <= 0 THEN <<>>
    ELSE IF Len(liveEnemies) = 0 THEN <<>>
    ELSE
      LET myArmor == request.playerTower.armor
          maxEnemyArmor == SeqMax([k \in 1..Len(liveEnemies) |-> liveEnemies[k].armor])
          hasMostArmor == myArmor >= maxEnemyArmor
      IN
      IF ~hasMostArmor
      THEN LET armorNeeded == Max(0, maxEnemyArmor + 5 - myArmor)
           IN IF armorNeeded > 0 THEN <<RawArmor(Num(armorNeeded))>> ELSE <<>>
      ELSE IF request.playerTower.level < 3
      THEN IF resources >= upgradeCost(request.playerTower.level)
           THEN <<RawUpgrade>> ELSE <<>>
      ELSE LET last == chooseLastAttacker(request)
               target == IF last # 0 THEN request.enemyTowers[last]
                         ELSE liveEnemies[chooseStrongestEnemy(liveEnemies)]
           IN <<RawAttack(Num(target.playerId), Num(resources))>>

armorControlCombat(request) ==
    LET resources == Max(0, request.playerTower.resources)
        liveEnemies == SelectSeq(request.enemyTowers, LAMBDA e : e.hp > 0)
    IN
    IF resources <= 0 THEN <<>>
    ELSE IF Len(liveEnemies) = 0 THEN <<>>
    ELSE
      LET myArmor == request.playerTower.armor
          maxEnemyArmor == SeqMax([k \in 1..Len(liveEnemies) |-> liveEnemies[k].armor])
          hasMostArmor == myArmor >= maxEnemyArmor
      IN
      IF ~hasMostArmor
      THEN LET armorNeeded == Max(0, maxEnemyArmor + 5 - myArmor)
               armorAmount == Min(resources, armorNeeded)
           IN IF armorAmount > 0 THEN <<RawArmor(Num(armorAmount))>> ELSE <<>>
      ELSE IF request.playerTower.level < 3
      THEN IF resources >= upgradeCost(request.playerTower.level)
           THEN <<RawUpgrade>> ELSE <<>>
      ELSE LET last == chooseLastAttacker(request)
               target == IF last # 0 THEN request.enemyTowers[last]
                         ELSE liveEnemies[chooseStrongestEnemy(liveEnemies)]
           IN <<RawAttack(Num(target.playerId), Num(resources))>>

\* A builder asks for an upgrade every turn, twice.
BuilderCombat(request) == <<RawUpgrade, RawUpgrade>>

\* A turtle asks for armor: a string, 0, more than it owns, half of what it
\* owns, and one more.
TurtleCombat(request) ==
    LET res == request.playerTower.resources IN
    <<RawArmor(NotANumber), RawArmor(Num(0)), RawArmor(Num(res + 1)),
      RawArmor(Half(res)), RawArmor(Num(1))>>

\* A raider sends, after some junk, half of what it owns against every id
\* from 0 to 5, its own and those of dead and nonexistent towers included,
\* and then half a troop against every tower.
RaiderCombat(request) ==
    LET res == request.playerTower.resources IN
    <<RawNull, RawOther, RawAttack(NotANumber, Num(1)), RawAttack(Num(1), NotANumber)>>
    \o [t \in 1..(NumTowers + 2) |-> RawAttack(Num(t - 1), Half(res))]
    \o [t \in 1..NumTowers |-> RawAttack(Num(t), Half(1))]

\* A finisher waits until this turn's fatigue would kill it, then sends
\* against every enemy what that enemy's hp and armor add up to.
FinisherCombat(request) ==
    IF request.playerTower.hp > fatigueDamage(request.turn) THEN <<>>
    ELSE [k \in 1..Len(request.enemyTowers) |->
            RawAttack(Num(request.enemyTowers[k].playerId),
                      Num(request.enemyTowers[k].hp + request.enemyTowers[k].armor))]

\* A raider's diplomacy: to itself, to 0, to a string, to tower 1 whether it
\* is alive or not, and twice to its first enemy.
RaiderNegotiate(request) ==
    LET self == request.playerTower.playerId
        first == IF request.enemyTowers = <<>> THEN NotANumber
                 ELSE Num(request.enemyTowers[1].playerId)
    IN <<Message(Num(self), NotANumber),
         Message(Num(0), NotANumber), Message(NotANumber, NotANumber),
         Message(Num(1), Num(NumTowers + 5)),
         Message(first, Num(self)), Message(first, Num(self))>>

\* A stranger's diplomacy: a message to a tower that does not exist, or null
StrangerNegotiate(request) ==
    {<<Message(Num(request.playerTower.playerId), NotANumber),
       Message(Num(NumTowers + 5), NotANumber)>>,
     <<Message(Num(request.playerTower.playerId), NotANumber), NullMessage>>}

LiveBots == {"flaky", "builder", "turtle", "raider", "finisher", "armorControl"}
Bots == LiveBots \cup {"dead", "unwell", "stranger"}

\* What a call to each agent can resolve to.  A flaky agent times out, answers
\* something that is no array, or answers the empty list.
AgentHealth(bot) ==
    IF bot = "dead" THEN {Failure}
    ELSE IF bot = "unwell" THEN {HealthReply("DOWN")}
    ELSE {HealthReply("OK")}

AgentNegotiate(bot, request) ==
    IF bot = "flaky" THEN {Failure, NotAnArray, Reply(<<>>)}
    ELSE IF bot = "raider" THEN {Reply(RaiderNegotiate(request))}
    ELSE IF bot = "stranger" THEN {Reply(d) : d \in StrangerNegotiate(request)}
    ELSE {Reply(<<>>)}

AgentCombat(bot, request) ==
    IF bot = "flaky" THEN {Failure, NotAnArray, Reply(<<>>)}
    ELSE IF bot = "builder" THEN {Reply(BuilderCombat(request))}
    ELSE IF bot = "turtle" THEN {Reply(TurtleCombat(request))}
    ELSE IF bot = "raider" THEN {Reply(RaiderCombat(request))}
    ELSE IF bot = "finisher" THEN {Reply(FinisherCombat(request))}
    ELSE IF bot = "armorControl" THEN {Reply(armorControlCombat(request))}
    ELSE {Reply(<<>>)}

(***************************************************************************)
(* The state after construction.  The command line gives 2 to 4 bot URLs,  *)
(* padded to 4 by args.push(args[args.length % args.length]).              *)
(***************************************************************************)
MinArgs == 2

RECURSIVE PadArgs(_)
PadArgs(args) ==
    IF Len(args) < NumTowers
    THEN PadArgs(Append(args, args[(Len(args) % Len(args)) + 1]))
    ELSE args

ArgLists == UNION {[1..n -> Bots] : n \in MinArgs..NumTowers}

NewGame(botUrls) ==
    /\ turn = 0
    /\ towers = [i \in PlayerIds |-> NewTower(i, botUrls[i])]
    /\ previousAttacks = <<>>
    /\ diplomacyMessages = <<>>
    /\ eliminations = <<>>

Init ==
    /\ \E args \in ArgLists : NewGame(SubSeq(PadArgs(args), 1, NumTowers))
    /\ pc = "health"
    /\ pending = [i \in PlayerIds |-> i]
    /\ allActions = [i \in PlayerIds |-> <<>>]
    /\ attacks = <<>>
    /\ cursor = 0
    /\ lastCall = NoCall
    /\ lastResult = Failure
    /\ winner = 0

(***************************************************************************)
(* runGame: health checks                                                  *)
(***************************************************************************)
healthy(result) == result.success /\ result.status = "OK"

\* HealthCheck going on to the next tower whatever the answer
HealthCheckLenient ==
    /\ pc = "health"
    /\ pending # <<>>
    /\ \E result \in AgentHealth(towers[Head(pending)].botUrl) :
          /\ lastCall' = HealthRequest(Head(pending))
          /\ lastResult' = result
          /\ pending' = Tail(pending)
          /\ pc' = IF Tail(pending) = <<>> THEN "loop" ELSE "health"
    /\ UNCHANGED <<turn, towers, previousAttacks, diplomacyMessages, eliminations,
                   allActions, attacks, cursor, winner>>

\* One iteration of the health check loop; process.exit(1) on a failure
HealthCheck ==
    /\ pc = "health"
    /\ pending # <<>>
    /\ \E result \in AgentHealth(towers[Head(pending)].botUrl) :
          /\ lastCall' = HealthRequest(Head(pending))
          /\ lastResult' = result
          /\ IF ~healthy(result)
             THEN pc' = "exit" /\ pending' = <<>>
             ELSE /\ pending' = Tail(pending)
                  /\ pc' = IF Tail(pending) = <<>> THEN "loop" ELSE "health"
    /\ UNCHANGED <<turn, towers, previousAttacks, diplomacyMessages, eliminations,
                   allActions, attacks, cursor, winner>>

(***************************************************************************)
(* runGame: the main loop                                                  *)
(***************************************************************************)
LoopTest ==
    /\ pc = "loop"
    /\ pc' = IF turn < MAX_TURNS THEN "turn" ELSE "limit"
    /\ UNCHANGED <<turn, towers, previousAttacks, diplomacyMessages, eliminations,
                   pending, allActions, attacks, cursor, lastCall, lastResult, winner>>

IncrementTurn ==
    /\ pc = "turn"
    /\ turn' = turn + 1
    /\ pc' = "clear"
    /\ UNCHANGED <<towers, previousAttacks, diplomacyMessages, eliminations,
                   pending, allActions, attacks, cursor, lastCall, lastResult, winner>>

\* ClearDiplomacy keeping the messages of the turn before
ClearDiplomacyKeeps ==
    /\ pc = "clear"
    /\ pc' = "income"
    /\ UNCHANGED <<turn, towers, previousAttacks, diplomacyMessages, eliminations,
                   pending, allActions, attacks, cursor, lastCall, lastResult, winner>>

ClearDiplomacy ==
    /\ pc = "clear"
    /\ diplomacyMessages' = <<>>
    /\ pc' = "income"
    /\ UNCHANGED <<turn, towers, previousAttacks, eliminations,
                   pending, allActions, attacks, cursor, lastCall, lastResult, winner>>

\* applyResourceGeneration over game.towers instead of the alive towers
applyResourceGenerationAll(ts) ==
    [i \in PlayerIds |->
        [ts[i] EXCEPT !.resources = @ + resourcesPerTurn(ts[i].level)]]

applyResourceGeneration(ts) ==
    [i \in PlayerIds |->
        IF isAlive(ts[i])
        THEN [ts[i] EXCEPT !.resources = @ + resourcesPerTurn(ts[i].level)]
        ELSE ts[i]]

\* applyResourceGeneration(game), then negotiationPhase takes its list of towers
ApplyIncome ==
    /\ pc = "income"
    /\ towers' = applyResourceGeneration(towers)
    /\ pending' = getAliveTowers(towers')
    /\ pc' = "negotiate"
    /\ UNCHANGED <<turn, previousAttacks, diplomacyMessages, eliminations,
                   allActions, attacks, cursor, lastCall, lastResult, winner>>

(***************************************************************************)
(* negotiationPhase                                                        *)
(***************************************************************************)
\* msg.allyId && typeof msg.allyId === 'number'
AllyIdOk(msg) == IsNumber(msg.allyId) /\ msg.allyId.twice # 0

DiplomacyEntry(from, msg) ==
    [playerId |-> from,
     action |-> [allyId |-> msg.allyId, attackTargetId |-> msg.attackTargetId]]

\* StoreMessage keeping only messages to another tower of the match
StoreMessageChecked(msgs, from, msg) ==
    IF ~AllyIdOk(msg) \/ msg.allyId.twice = 2 * from
       \/ msg.allyId.twice \notin {2 * p : p \in PlayerIds}
    THEN msgs
    ELSE LET key == msg.allyId.twice
             old == IF key \in DOMAIN msgs THEN msgs[key] ELSE <<>>
         IN [k \in DOMAIN msgs \cup {key} |->
                IF k = key THEN Append(old, DiplomacyEntry(from, msg)) ELSE msgs[k]]

StoreMessage(msgs, from, msg) ==
    IF ~AllyIdOk(msg) THEN msgs
    ELSE LET key == msg.allyId.twice
             old == IF key \in DOMAIN msgs THEN msgs[key] ELSE <<>>
         IN [k \in DOMAIN msgs \cup {key} |->
                IF k = key THEN Append(old, DiplomacyEntry(from, msg)) ELSE msgs[k]]

\* The loop over a reply's messages; msg.allyId of a null msg throws, and the
\* messages before it are stored
RECURSIVE StoreMessages(_, _, _)
StoreMessages(msgs, from, data) ==
    IF data = <<>> THEN [messages |-> msgs, thrown |-> FALSE]
    ELSE IF Head(data).isNull THEN [messages |-> msgs, thrown |-> TRUE]
    ELSE StoreMessages(StoreMessage(msgs, from, Head(data)), from, Tail(data))

\* One iteration of negotiationPhase's loop: the call to one alive tower's
\* agent.  What the loop throws rejects runGame, whose catch exits.
Negotiate ==
    /\ pc = "negotiate"
    /\ pending # <<>>
    /\ LET i == Head(pending)
           request == NegotiateRequest(i)
       IN \E result \in AgentNegotiate(towers[i].botUrl, request) :
          LET stored == IF result.success /\ result.isArray
                        THEN StoreMessages(diplomacyMessages, i, result.data)
                        ELSE [messages |-> diplomacyMessages, thrown |-> FALSE]
          IN /\ lastCall' = request
             /\ lastResult' = result
             /\ diplomacyMessages' = stored.messages
             /\ IF stored.thrown
                THEN pc' = "crash" /\ pending' = <<>>
                ELSE IF Tail(pending) = <<>>
                THEN pc' = "diplomacy" /\ pending' = <<>>
                ELSE pc' = "negotiate" /\ pending' = Tail(pending)
    /\ UNCHANGED <<turn, towers, previousAttacks, eliminations, allActions,
                   attacks, cursor, winner>>

\* runGame's log of the turn's diplomacy: to.displayName() throws for a
\* message whose allyId is no tower's playerId.  Then combatPhase takes its
\* list of towers.
LogDiplomacy ==
    /\ pc = "diplomacy"
    /\ IF \A key \in DOMAIN diplomacyMessages : \E p \in PlayerIds : key = 2 * p
       THEN pc' = "collect" /\ pending' = getAliveTowers(towers)
       ELSE pc' = "crash" /\ pending' = <<>>
    /\ UNCHANGED <<turn, towers, previousAttacks, diplomacyMessages, eliminations,
                   allActions, attacks, cursor, lastCall, lastResult, winner>>

(***************************************************************************)
(* combatPhase                                                             *)
(***************************************************************************)
\* What combatPhase keeps of a call's result: the validated actions, or none
Collected(result, tower, ts) ==
    IF result.success /\ result.isArray
    THEN validateActions(result.data, tower, ts)
    ELSE <<>>

\* Collect with a call that does not succeed thrown to runGame
CollectFailureThrows(result) ==
    /\ pc = "collect"
    /\ pending # <<>>
    /\ LET i == Head(pending)
       IN /\ lastCall' = CombatRequest(i)
          /\ lastResult' = result
          /\ allActions' = [allActions EXCEPT ![i] = Collected(result, towers[i], towers)]
    /\ IF ~result.success
       THEN pc' = "crash" /\ pending' = <<>>
       ELSE IF Tail(pending) = <<>>
       THEN pc' = "process" /\ pending' = getAliveTowers(towers)
       ELSE pc' = "collect" /\ pending' = Tail(pending)
    /\ UNCHANGED <<turn, towers, previousAttacks, diplomacyMessages, eliminations,
                   attacks, cursor, winner>>

\* Collect with a call that does not succeed emptying every tower's actions
CollectFailureResets(result) ==
    /\ pc = "collect"
    /\ pending # <<>>
    /\ LET i == Head(pending)
       IN /\ lastCall' = CombatRequest(i)
          /\ lastResult' = result
          /\ allActions' =
                IF result.success
                THEN [allActions EXCEPT ![i] = Collected(result, towers[i], towers)]
                ELSE [j \in PlayerIds |-> <<>>]
    /\ IF Tail(pending) = <<>>
       THEN pc' = "process" /\ pending' = getAliveTowers(towers)
       ELSE pc' = "collect" /\ pending' = Tail(pending)
    /\ UNCHANGED <<turn, towers, previousAttacks, diplomacyMessages, eliminations,
                   attacks, cursor, winner>>

\* One iteration of the collecting loop, given what the call resolved to
Collect(result) ==
    /\ pc = "collect"
    /\ pending # <<>>
    /\ LET i == Head(pending)
       IN /\ lastCall' = CombatRequest(i)
          /\ lastResult' = result
          /\ allActions' = [allActions EXCEPT ![i] = Collected(result, towers[i], towers)]
    /\ IF Tail(pending) = <<>>
       THEN pc' = "process" /\ pending' = getAliveTowers(towers)
       ELSE pc' = "collect" /\ pending' = Tail(pending)
    /\ UNCHANGED <<turn, towers, previousAttacks, diplomacyMessages, eliminations,
                   attacks, cursor, winner>>

\* The call to one alive tower's agent
CombatCollect ==
    /\ pc = "collect"
    /\ pending # <<>>
    /\ \E result \in AgentCombat(towers[Head(pending)].botUrl,
                                 CombatRequest(Head(pending))) : Collect(result)

\* applyAction with the upgrade's cost read after the level is raised
applyActionCostAfterLevel(acc, action) ==
    IF action.type = "armor"
    THEN [acc EXCEPT !.tower.armor = @ + action.amount,
                     !.resourcesSpent = @ + action.amount]
    ELSE IF action.type = "upgrade"
    THEN [acc EXCEPT !.tower.level = @ + 1,
                     !.resourcesSpent = @ + upgradeCost(acc.tower.level + 1)]
    ELSE IF action.type = "attack"
    THEN [acc EXCEPT !.attacks = Append(@,
                        [playerId |-> acc.tower.playerId,
                         action |-> [targetId |-> action.targetId,
                                     troopCount |-> action.troopCount]]),
                     !.resourcesSpent = @ + action.troopCount]
    ELSE acc

\* applyAction with attacks.unshift for attacks.push
applyActionUnshift(acc, action) ==
    IF action.type = "armor"
    THEN [acc EXCEPT !.tower.armor = @ + action.amount,
                     !.resourcesSpent = @ + action.amount]
    ELSE IF action.type = "upgrade"
    THEN [acc EXCEPT !.tower.level = @ + 1,
                     !.resourcesSpent = @ + upgradeCost(acc.tower.level)]
    ELSE IF action.type = "attack"
    THEN [acc EXCEPT !.attacks = <<[playerId |-> acc.tower.playerId,
                                    action |-> [targetId |-> action.targetId,
                                                troopCount |-> action.troopCount]]>>
                                 \o @,
                     !.resourcesSpent = @ + action.troopCount]
    ELSE acc

\* The effect of one validated action on its tower, the queue and the spending
applyAction(acc, action) ==
    IF action.type = "armor"
    THEN [acc EXCEPT !.tower.armor = @ + action.amount,
                     !.resourcesSpent = @ + action.amount]
    ELSE IF action.type = "upgrade"
    THEN [acc EXCEPT !.tower.level = @ + 1,
                     !.resourcesSpent = @ + upgradeCost(acc.tower.level)]
    ELSE IF action.type = "attack"
    THEN [acc EXCEPT !.attacks = Append(@,
                        [playerId |-> acc.tower.playerId,
                         action |-> [targetId |-> action.targetId,
                                     troopCount |-> action.troopCount]]),
                     !.resourcesSpent = @ + action.troopCount]
    ELSE acc

RECURSIVE applyActions(_, _)
applyActions(acc, actions) ==
    IF actions = <<>> THEN acc
    ELSE applyActions(applyAction(acc, Head(actions)), Tail(actions))

\* The body of the processing loop for one tower, the debit included
processTower(tower, actions, queue) ==
    LET acc == applyActions([tower |-> tower, attacks |-> queue, resourcesSpent |-> 0],
                            actions)
    IN [tower |-> [acc.tower EXCEPT !.resources = @ - acc.resourcesSpent],
        attacks |-> acc.attacks]

\* ProcessActions taking the towers in any order, as their replies might arrive
ProcessActionsAnyOrder ==
    /\ pc = "process"
    /\ pending # <<>>
    /\ \E k \in 1..Len(pending) :
          LET i == pending[k]
              rest == SubSeq(pending, 1, k - 1) \o SubSeq(pending, k + 1, Len(pending))
              done == processTower(towers[i], allActions[i], attacks)
          IN /\ towers' = [towers EXCEPT ![i] = done.tower]
             /\ attacks' = done.attacks
             /\ IF rest = <<>>
                THEN pc' = "resolve" /\ pending' = <<>> /\ cursor' = 1
                ELSE pc' = "process" /\ pending' = rest /\ cursor' = cursor
    /\ UNCHANGED <<turn, previousAttacks, diplomacyMessages, eliminations,
                   allActions, lastCall, lastResult, winner>>

\* One iteration of the processing loop
ProcessActions ==
    /\ pc = "process"
    /\ pending # <<>>
    /\ LET i == Head(pending)
           done == processTower(towers[i], allActions[i], attacks)
       IN /\ towers' = [towers EXCEPT ![i] = done.tower]
          /\ attacks' = done.attacks
    /\ IF Tail(pending) = <<>>
       THEN pc' = "resolve" /\ pending' = <<>> /\ cursor' = 1
       ELSE pc' = "process" /\ pending' = Tail(pending) /\ cursor' = cursor
    /\ UNCHANGED <<turn, previousAttacks, diplomacyMessages, eliminations,
                   allActions, lastCall, lastResult, winner>>

\* damageTower without Math.max(0, target.hp)
damageTowerNoClamp(target, troopCount) ==
    LET armorDamage == Min(target.armor, troopCount)
        damage == troopCount - armorDamage
    IN [target EXCEPT !.armor = @ - armorDamage,
                      !.hp = @ - damage]

\* damageTower with the whole troopCount taken from hp, armor or not
damageTowerThroughArmor(target, troopCount) ==
    LET armorDamage == Min(target.armor, troopCount)
    IN [target EXCEPT !.armor = @ - armorDamage,
                      !.hp = Max(0, @ - troopCount)]

\* The damage of one attack on its target
damageTower(target, troopCount) ==
    LET armorDamage == Min(target.armor, troopCount)
        damage == troopCount - armorDamage
    IN [target EXCEPT !.armor = @ - armorDamage,
                      !.hp = Max(0, @ - damage)]

\* ResolveAttack with an attack on a fallen tower taken out of the queue
ResolveAttackDropsDead ==
    /\ pc = "resolve"
    /\ cursor <= Len(attacks)
    /\ LET attack == attacks[cursor]
           target == attack.action.targetId
       IN IF target \in PlayerIds /\ isAlive(towers[target])
          THEN LET hit == damageTower(towers[target], attack.action.troopCount)
               IN /\ towers' = [towers EXCEPT ![target] = hit]
                  /\ eliminations' =
                        IF hit.hp <= 0
                        THEN recordElimination(eliminations, target, turn)
                        ELSE eliminations
                  /\ cursor' = cursor + 1
                  /\ attacks' = attacks
          ELSE /\ UNCHANGED <<towers, eliminations, cursor>>
               /\ attacks' = SubSeq(attacks, 1, cursor - 1)
                                \o SubSeq(attacks, cursor + 1, Len(attacks))
    /\ UNCHANGED <<pc, turn, previousAttacks, diplomacyMessages, pending,
                   allActions, lastCall, lastResult, winner>>

\* One iteration of the attack loop
ResolveAttack ==
    /\ pc = "resolve"
    /\ cursor <= Len(attacks)
    /\ LET attack == attacks[cursor]
           target == attack.action.targetId
       IN IF target \in PlayerIds /\ isAlive(towers[target])
          THEN LET hit == damageTower(towers[target], attack.action.troopCount)
               IN /\ towers' = [towers EXCEPT ![target] = hit]
                  /\ eliminations' =
                        IF hit.hp <= 0
                        THEN recordElimination(eliminations, target, turn)
                        ELSE eliminations
          ELSE UNCHANGED <<towers, eliminations>>
    /\ cursor' = cursor + 1
    /\ UNCHANGED <<pc, turn, previousAttacks, diplomacyMessages, pending,
                   allActions, attacks, lastCall, lastResult, winner>>

\* StoreAttacks with the turn's attacks added to the earlier list
StoreAttacksAppend ==
    /\ pc = "resolve"
    /\ cursor > Len(attacks)
    /\ previousAttacks' = previousAttacks \o attacks
    /\ allActions' = [i \in PlayerIds |-> <<>>]
    /\ attacks' = <<>>
    /\ cursor' = 0
    /\ pc' = "fatigue"
    /\ UNCHANGED <<turn, towers, diplomacyMessages, eliminations, pending,
                   lastCall, lastResult, winner>>

\* game.previousAttacks = attacks, and combatPhase returns
StoreAttacks ==
    /\ pc = "resolve"
    /\ cursor > Len(attacks)
    /\ previousAttacks' = attacks
    /\ allActions' = [i \in PlayerIds |-> <<>>]
    /\ attacks' = <<>>
    /\ cursor' = 0
    /\ pc' = "fatigue"
    /\ UNCHANGED <<turn, towers, diplomacyMessages, eliminations, pending,
                   lastCall, lastResult, winner>>

(***************************************************************************)
(* applyFatigue and the check for a winner                                 *)
(***************************************************************************)
\* fatigueLoop without the call of recordElimination
RECURSIVE fatigueLoopNoRecord(_, _, _, _)
fatigueLoopNoRecord(g, ids, damage, t) ==
    IF ids = <<>> THEN g
    ELSE LET i == Head(ids)
             hp == Max(0, g.towers[i].hp - damage)
         IN fatigueLoopNoRecord(
                [towers |-> [g.towers EXCEPT ![i].hp = hp],
                 eliminations |-> g.eliminations],
                Tail(ids), damage, t)

\* fatigueLoop with the damage taken from armor before hp, as an attack's is
RECURSIVE fatigueLoopArmorFirst(_, _, _, _)
fatigueLoopArmorFirst(g, ids, damage, t) ==
    IF ids = <<>> THEN g
    ELSE LET i == Head(ids)
             hit == damageTower(g.towers[i], damage)
         IN fatigueLoopArmorFirst(
                [towers |-> [g.towers EXCEPT ![i] = hit],
                 eliminations |-> IF hit.hp <= 0
                                  THEN recordElimination(g.eliminations, i, t)
                                  ELSE g.eliminations],
                Tail(ids), damage, t)

RECURSIVE fatigueLoop(_, _, _, _)
fatigueLoop(g, ids, damage, t) ==
    IF ids = <<>> THEN g
    ELSE LET i == Head(ids)
             hp == Max(0, g.towers[i].hp - damage)
         IN fatigueLoop(
                [towers |-> [g.towers EXCEPT ![i].hp = hp],
                 eliminations |-> IF hp <= 0
                                  THEN recordElimination(g.eliminations, i, t)
                                  ELSE g.eliminations],
                Tail(ids), damage, t)

applyFatigue(g, t) ==
    LET damage == fatigueDamage(t) IN
    IF damage > 0
    THEN fatigueLoop(g, getAliveTowers(g.towers), damage, t)
    ELSE g

\* ApplyFatigue with the winner looked for before the fatigue is applied: a
\* tower alone after the attacks wins without taking the turn's fatigue
ApplyFatigueAfterCheck ==
    /\ pc = "fatigue"
    /\ IF Len(getAliveTowers(towers)) = 1
       THEN /\ pc' = "over" /\ winner' = getAliveTowers(towers)[1]
            /\ UNCHANGED <<towers, eliminations>>
       ELSE /\ LET g == applyFatigue([towers |-> towers,
                                      eliminations |-> eliminations], turn)
               IN towers' = g.towers /\ eliminations' = g.eliminations
            /\ pc' = "check" /\ winner' = winner
    /\ UNCHANGED <<turn, previousAttacks, diplomacyMessages, pending, allActions,
                   attacks, cursor, lastCall, lastResult>>

ApplyFatigue ==
    /\ pc = "fatigue"
    /\ LET g == applyFatigue([towers |-> towers, eliminations |-> eliminations], turn)
       IN towers' = g.towers /\ eliminations' = g.eliminations
    /\ pc' = "check"
    /\ UNCHANGED <<turn, previousAttacks, diplomacyMessages, pending, allActions,
                   attacks, cursor, lastCall, lastResult, winner>>

\* getRankings without the reverse(): the first to fall ranked best
getRankingsInOrder(ts, elims) ==
    LET alive == getAliveTowers(ts) IN
    [k \in 1..Len(alive) |-> [tower |-> alive[k], turn |-> 0, rank |-> 1]]
    \o [k \in 1..Len(elims) |->
          [tower |-> elims[k].tower, turn |-> elims[k].turn,
           rank |-> Len(alive) + k]]

\* game.getRankings(), which displayWinner shows when the match is over: the
\* alive towers with rank 1 and turn null (0), then the eliminated towers
\* from the last to fall to the first, each one rank further down
getRankings(ts, elims) ==
    LET alive == getAliveTowers(ts) IN
    [k \in 1..Len(alive) |-> [tower |-> alive[k], turn |-> 0, rank |-> 1]]
    \o [k \in 1..Len(elims) |->
          [tower |-> elims[Len(elims) - k + 1].tower,
           turn |-> elims[Len(elims) - k + 1].turn,
           rank |-> Len(alive) + k]]

\* getWinner returning the first alive tower however many are alive
getWinnerFirstAlive(ts) ==
    LET alive == getAliveTowers(ts) IN
    IF Len(alive) >= 1 THEN alive[1] ELSE 0

\* game.getWinner(): the only alive tower, or 0 for null
getWinner(ts) ==
    LET alive == getAliveTowers(ts) IN
    IF Len(alive) = 1 THEN alive[1] ELSE 0

CheckWinner ==
    /\ pc = "check"
    /\ LET w == getWinner(towers) IN
       IF w # 0 \/ Len(getAliveTowers(towers)) = 0
       THEN pc' = "over" /\ winner' = w
       ELSE pc' = "loop" /\ winner' = winner
    /\ UNCHANGED <<turn, towers, previousAttacks, diplomacyMessages, eliminations,
                   pending, allActions, attacks, cursor, lastCall, lastResult>>

Next ==
    \/ HealthCheck
    \/ LoopTest
    \/ IncrementTurn
    \/ ClearDiplomacy
    \/ ApplyIncome
    \/ Negotiate
    \/ LogDiplomacy
    \/ CombatCollect
    \/ ProcessActions
    \/ ResolveAttack
    \/ StoreAttacks
    \/ ApplyFatigue
    \/ CheckWinner

Spec == Init /\ [][Next]_vars

(***************************************************************************)
(* The matches started with MinArgs bot URLs on the command line           *)
(***************************************************************************)
InitTwo ==
    /\ \E args \in [1..MinArgs -> Bots] : NewGame(SubSeq(PadArgs(args), 1, NumTowers))
    /\ pc = "health"
    /\ pending = [i \in PlayerIds |-> i]
    /\ allActions = [i \in PlayerIds |-> <<>>]
    /\ attacks = <<>>
    /\ cursor = 0
    /\ lastCall = NoCall
    /\ lastResult = Failure
    /\ winner = 0

SpecTwo == InitTwo /\ [][Next]_vars

(***************************************************************************)
(* The validator alone: one call of the collecting loop in the middle of a *)
(* match, for every raw list of up to MaxLen actions over RawAlphabet.     *)
(* Tower 2 is asked; tower 3 was eliminated in turn 5.                     *)
(***************************************************************************)
MaxLen == 3


RawAlphabet ==
    {RawNull, RawUpgrade,
     RawArmor(NotANumber), RawArmor(Half(1)), RawArmor(Num(30)), RawArmor(Num(80)),
     RawAttack(Num(1), Num(30)), RawAttack(Num(1), Half(41)),
     RawAttack(Num(4), Num(60)), RawAttack(Num(4), NotANumber),
     RawAttack(Num(2), Num(1)), RawAttack(Num(3), Num(1)),
     RawAttack(Num(NumTowers + 5), Num(1)), RawAttack(Half(3), Num(1))}

RawLists == UNION {[1..n -> RawAlphabet] : n \in 0..MaxLen}

AskedResources == {0, 50, 100}
AskedLevels == {1, MAX_LEVEL}

InitValidate ==
    /\ turn = 12
    /\ \E r \in AskedResources, l \in AskedLevels :
          towers = [i \in PlayerIds |->
                      IF i = 2
                      THEN [NewTower(i, "any") EXCEPT !.resources = r, !.level = l]
                      ELSE IF i = 3
                      THEN [NewTower(i, "any") EXCEPT !.hp = 0, !.resources = 40]
                      ELSE [NewTower(i, "any") EXCEPT !.resources = 20, !.armor = 10 * i]]
    /\ previousAttacks = <<>>
    /\ diplomacyMessages = <<>>
    /\ eliminations = <<[tower |-> 3, turn |-> 5]>>
    /\ pc = "collect"
    /\ pending = <<2, 4>>
    /\ allActions = [i \in PlayerIds |-> <<>>]
    /\ attacks = <<>>
    /\ cursor = 0
    /\ lastCall = CombatRequest(1)
    /\ lastResult = Reply(<<>>)
    /\ winner = 0

ValidateSubmission ==
    /\ Head(pending) = 2
    /\ \E raw \in RawLists : Collect(Reply(raw))

SpecValidate == InitValidate /\ [][ValidateSubmission]_vars

(***************************************************************************)
(* The attack loop alone: combatPhase at the start of its attack loop, for *)
(* every queue towers 1 and 3 can have had accepted, with up to MaxAttacks *)
(* attacks each.  Tower 4 was eliminated in turn 5.                        *)
(***************************************************************************)
MaxAttacks == 2

Attackers == {1, 3}
TargetArmor == {0, 30, 60}
TargetHp == {40, 100}
TroopCounts == {0, 50, 150}

\* The attacks tower i can have had accepted: distinct alive targets, not itself
AttackLists(i) ==
    {l \in UNION {[1..n -> {AttackAction(t, c) : t \in (1..3) \ {i}, c \in TroopCounts}]
                    : n \in 0..MaxAttacks} :
        \A a, b \in 1..Len(l) : a # b => l[a].targetId # l[b].targetId}

\* The attacks among the given actions of each tower, from tower `from` on:
\* tower after tower, each tower's in the order of its list
RECURSIVE Queued(_, _)
Queued(actions, from) ==
    IF from > NumTowers THEN <<>>
    ELSE LET own == SelectSeq(actions[from], LAMBDA a : a.type = "attack")
         IN [k \in 1..Len(own) |->
                [playerId |-> from,
                 action |-> [targetId |-> own[k].targetId,
                             troopCount |-> own[k].troopCount]]]
            \o Queued(actions, from + 1)

InitResolve ==
    /\ turn = 12
    /\ \E a \in TargetArmor, h \in TargetHp :
          towers = [i \in PlayerIds |->
                      IF i = 2 THEN [NewTower(i, "any") EXCEPT !.armor = a, !.hp = h]
                      ELSE IF i = 4 THEN [NewTower(i, "any") EXCEPT !.hp = 0]
                      ELSE NewTower(i, "any")]
    /\ \E l1 \in AttackLists(1), l3 \in AttackLists(3) :
          allActions = [i \in PlayerIds |->
                          IF i = 1 THEN l1 ELSE IF i = 3 THEN l3 ELSE <<>>]
    /\ attacks = Queued(allActions, 1)
    /\ previousAttacks = <<>>
    /\ diplomacyMessages = <<>>
    /\ eliminations = <<[tower |-> 4, turn |-> 5]>>
    /\ pc = "resolve"
    /\ pending = <<>>
    /\ cursor = 1
    /\ lastCall = CombatRequest(3)
    /\ lastResult = Reply(<<>>)
    /\ winner = 0

NextResolve ==
    \/ ResolveAttack
    \/ StoreAttacks

SpecResolve == InitResolve /\ [][NextResolve]_vars

(***************************************************************************)
(* The processing loop alone: the towers' validated actions are applied,   *)
(* tower 2's being what validateActions accepts of a submission.           *)
(***************************************************************************)
InitApply ==
    /\ turn = 12
    /\ \E r \in AskedResources, l \in AskedLevels, raw \in RawLists :
          LET ts == [i \in PlayerIds |->
                      IF i = 2
                      THEN [NewTower(i, "any") EXCEPT !.resources = r, !.level = l]
                      ELSE IF i = 3
                      THEN [NewTower(i, "any") EXCEPT !.hp = 0, !.resources = 40]
                      ELSE [NewTower(i, "any") EXCEPT !.resources = 20, !.armor = 10 * i]]
          IN /\ towers = ts
             /\ allActions = [i \in PlayerIds |->
                     IF i = 2 THEN validateActions(raw, ts[2], ts) ELSE <<>>]
    /\ previousAttacks = <<>>
    /\ diplomacyMessages = <<>>
    /\ eliminations = <<[tower |-> 3, turn |-> 5]>>
    /\ pc = "process"
    /\ pending = <<1, 2, 4>>
    /\ attacks = <<>>
    /\ cursor = 0
    /\ lastCall = CombatRequest(4)
    /\ lastResult = Reply(<<>>)
    /\ winner = 0

SpecApply == InitApply /\ [][ProcessActions]_vars

(***************************************************************************)
(* The bot's combat strategy, src/combat.ts with the helpers of types.ts,  *)
(* alone: one combat request and the bot's answer to it.  Its upgradeCost  *)
(* is the engine's formula.  An index 0 stands for null.                   *)
(***************************************************************************)
MAX_USEFUL_ARMOR == 300
AGGRESSIVE_ARMOR_PER_LEVEL == 25
MIN_ARMOR_FLOOR == 30
AGGRESSION_TURN == 20
OPTIMAL_LEVEL_CAP == 3
MAX_LEVEL_IF_RICH == 4
UPGRADE_CUTOFF_TURN == 20
HP_SAFETY_THRESHOLD == 80

killCost(tower) == tower.hp + tower.armor

\* canKill whatever the resources
canKillAlways(resources, target) == TRUE

canKill(resources, target) == resources >= killCost(target)

\* getAliveTowers of types.ts
aliveEnemies(enemyTowers) == SelectSeq(enemyTowers, LAMBDA t : t.hp > 0)

RECURSIVE damageBy(_, _, _)
damageBy(attacks_, myId, playerId) ==
    IF attacks_ = <<>> THEN 0
    ELSE (IF Head(attacks_).action.targetId = myId /\ Head(attacks_).playerId = playerId
          THEN Head(attacks_).action.troopCount ELSE 0)
         + damageBy(Tail(attacks_), myId, playerId)

\* The first player, in the order of their first attack on myId, with the
\* most damage; playerId 0 for null
findTopAggressor(attacks_, myId) ==
    LET onMe == {k \in 1..Len(attacks_) : attacks_[k].action.targetId = myId}
        firstOf(p) == CHOOSE k \in onMe :
                          /\ attacks_[k].playerId = p
                          /\ \A j \in onMe : attacks_[j].playerId = p => k <= j
        players == {attacks_[k].playerId : k \in onMe}
    IN IF onMe = {} THEN [playerId |-> 0, damage |-> 0]
       ELSE LET top == CHOOSE p \in players : \A q \in players :
                           \/ damageBy(attacks_, myId, p) > damageBy(attacks_, myId, q)
                           \/ /\ damageBy(attacks_, myId, p) = damageBy(attacks_, myId, q)
                              /\ firstOf(p) <= firstOf(q)
            IN [playerId |-> top, damage |-> damageBy(attacks_, myId, top)]

attackersWhoHitMe(previousAttacks_, myId) ==
    {previousAttacks_[k].playerId :
        k \in {n \in 1..Len(previousAttacks_) :
                  previousAttacks_[n].action.targetId = myId}}

\* reduce((a, b) => killCost(a) < killCost(b) ? a : b) over the towers at
\* the indices: the last index of the lowest hp + armor
LastCheapest(towers_, among) ==
    CHOOSE k \in among : \A j \in among :
        \/ killCost(towers_[k]) < killCost(towers_[j])
        \/ killCost(towers_[k]) = killCost(towers_[j]) /\ j <= k

\* reduce((a, b) => b.level > a.level ? b : a): the first index of the
\* highest level
FirstHighestLevel(towers_, among) ==
    CHOOSE k \in among : \A j \in among :
        \/ towers_[k].level > towers_[j].level
        \/ towers_[k].level = towers_[j].level /\ k <= j

\* findBestKillTarget taking the easiest kill, attacker or not
findBestKillTargetEasiest(towers_, resources, previousAttacks_, myId) ==
    LET killable == {k \in 1..Len(towers_) : canKill(resources, towers_[k])}
    IN IF killable = {} THEN 0 ELSE LastCheapest(towers_, killable)

\* The index in towers_ of the target, or 0
findBestKillTarget(towers_, resources, previousAttacks_, myId) ==
    LET killable == {k \in 1..Len(towers_) : canKill(resources, towers_[k])}
        killableAggressors ==
            {k \in killable :
                towers_[k].playerId \in attackersWhoHitMe(previousAttacks_, myId)}
    IN IF killable = {} THEN 0
       ELSE IF killableAggressors # {}
       THEN FirstHighestLevel(towers_, killableAggressors)
       ELSE LastCheapest(towers_, killable)

findBestAttackTarget(towers_, previousAttacks_, myId) ==
    LET all == 1..Len(towers_)
        aggressorTowers ==
            {k \in all :
                towers_[k].playerId \in attackersWhoHitMe(previousAttacks_, myId)}
    IN IF towers_ = <<>> THEN 0
       ELSE IF aggressorTowers # {}
       THEN LastCheapest(towers_, aggressorTowers)
       ELSE FirstHighestLevel(towers_, all)

hasArmorAction(actions) ==
    \E k \in 1..Len(actions) : actions[k].type = "armor"

hasAttackOnTarget(actions, targetId) ==
    \E k \in 1..Len(actions) :
        actions[k].type = "attack" /\ actions[k].targetId = Num(targetId)

\* actions.push(action); resources -= cost
Spend(state, action, cost) ==
    [actions |-> Append(state.actions, action), resources |-> state.resources - cost]

getShouldUpgrade(turn_, level, hp, armor, resources, targetArmor) ==
    IF turn_ > UPGRADE_CUTOFF_TURN THEN FALSE
    ELSE IF hp < 60 THEN FALSE
    ELSE LET isRichAndSafe == hp >= 90 /\ armor >= targetArmor /\ resources >= 200
             levelCap == IF isRichAndSafe THEN MAX_LEVEL_IF_RICH ELSE OPTIMAL_LEVEL_CAP
         IN IF level >= levelCap THEN FALSE
            ELSE IF turn_ <= 8
            THEN IF hp >= HP_SAFETY_THRESHOLD \/ armor >= 10
                 THEN resources >= upgradeCost(level)
                 ELSE resources >= upgradeCost(level) + 10
            ELSE IF armor < targetArmor THEN FALSE
            ELSE resources >= upgradeCost(level)

\* Math.floor(resources * aggressionRatio), the ratio being the double 0.6 in
\* fatigue and Math.min(0.6, 0.5 + (turn - 20) * 0.02) before.  For amounts
\* below 750 the double product is below the exact one's integer part only
\* at turn 24 (ratio 0.58) for 50, 100, 200 and 400.
attackBudget(resources, turn_) ==
    LET percent == IF turn_ >= FATIGUE_START_TURN THEN 60
                   ELSE Min(60, 50 + (turn_ - AGGRESSION_TURN) * 2)
    IN IF percent = 58 /\ resources \in {50, 100, 200, 400}
       THEN (resources * percent) \div 100 - 1
       ELSE (resources * percent) \div 100

\* An attack on the tower at an index of aliveTowers
AttackOn(state, aliveTowers, target, troopCount) ==
    Spend(state, RawAttack(Num(aliveTowers[target].playerId), Num(troopCount)),
          troopCount)

\* An armor action of an amount, if the amount is positive
ArmorOf(state, amount) ==
    IF amount > 0 THEN Spend(state, RawArmor(Num(amount)), amount) ELSE state

\* The last armor of both strategies: all that is left, up to MAX_USEFUL_ARMOR
leftoverArmor(state, armor) ==
    IF state.resources > 0 /\ ~hasArmorAction(state.actions) /\ armor < MAX_USEFUL_ARMOR
    THEN ArmorOf(state, Min(state.resources, MAX_USEFUL_ARMOR - armor)).actions
    ELSE state.actions

\* executeEndgameStrategy: the minimum armor of 50
endgameArmor(state, currentArmor) ==
    IF currentArmor < 50 /\ ~hasArmorAction(state.actions)
    THEN ArmorOf(state, Min(state.resources, 50 - currentArmor))
    ELSE state

\* executeEndgameStrategy: the attack on the best target when there is no
\* kill shot
endgameThreat(state, aliveTowers, target, turn_) ==
    IF target # 0 /\ ~hasAttackOnTarget(state.actions, aliveTowers[target].playerId)
    THEN IF attackBudget(state.resources, turn_) > 0
         THEN AttackOn(state, aliveTowers, target, attackBudget(state.resources, turn_))
         ELSE state
    ELSE state

\* executeEndgameStrategy: the kill shot, or else the attack on the best target
endgameAttack(state, aliveTowers, killTarget, turn_, previousAttacks_, myId) ==
    IF killTarget # 0
       /\ ~hasAttackOnTarget(state.actions, aliveTowers[killTarget].playerId)
    THEN AttackOn(state, aliveTowers, killTarget, killCost(aliveTowers[killTarget]))
    ELSE endgameThreat(state, aliveTowers,
                       findBestAttackTarget(aliveTowers, previousAttacks_, myId), turn_)

\* executeEndgameStrategy from the kill-shot check on
endgameFrom(armored, currentArmor, aliveTowers, turn_, previousAttacks_, myId) ==
    leftoverArmor(
        endgameAttack(armored, aliveTowers,
                      findBestKillTarget(aliveTowers, armored.resources,
                                         previousAttacks_, myId),
                      turn_, previousAttacks_, myId),
        currentArmor)

executeEndgameStrategy(existingActions, resources, currentArmor, aliveTowers, turn_, hp, previousAttacks_, myId) ==
    endgameFrom(endgameArmor([actions |-> existingActions, resources |-> resources],
                             currentArmor),
                currentArmor, aliveTowers, turn_, previousAttacks_, myId)

\* computeCombatActions: priority 1, the kill shot
killShot(state, aliveTowers, killTarget) ==
    IF killTarget # 0
    THEN AttackOn(state, aliveTowers, killTarget, killCost(aliveTowers[killTarget]))
    ELSE state

\* computeCombatActions: priority 2, the retaliation
retaliation(state, aliveTowers, aggressor, killTarget) ==
    IF /\ aggressor.playerId # 0 /\ aggressor.damage > 0 /\ killTarget = 0
       /\ \E k \in 1..Len(aliveTowers) : aliveTowers[k].playerId = aggressor.playerId
       /\ ~hasAttackOnTarget(state.actions, aggressor.playerId)
    THEN LET retaliationAmount == Min(state.resources, (aggressor.damage * 3) \div 2)
         IN IF retaliationAmount > 0
            THEN Spend(state,
                       RawAttack(Num(aggressor.playerId), Num(retaliationAmount)),
                       retaliationAmount)
            ELSE state
    ELSE state

\* An upgrade action if the resources left pay for it
upgradeIfAffordable(state, level) ==
    IF state.resources >= upgradeCost(level)
    THEN Spend(state, RawUpgrade, upgradeCost(level))
    ELSE state

\* computeCombatActions: the armor before an upgrade
armorBeforeUpgrade(state, level, minArmorBeforeUpgrade) ==
    IF /\ minArmorBeforeUpgrade > 0
       /\ state.resources >= upgradeCost(level) + minArmorBeforeUpgrade
       /\ ~hasArmorAction(state.actions)
    THEN ArmorOf(state, Min(minArmorBeforeUpgrade, state.resources - upgradeCost(level)))
    ELSE state

upgradePath(state, level, armor, targetArmor) ==
    upgradeIfAffordable(
        armorBeforeUpgrade(state, level,
                           Max(Max(MIN_ARMOR_FLOOR - armor, targetArmor - armor), 0)),
        level)

\* Math.floor(Math.min(resources, Math.max(armorDeficit + 20, resources * 0.8)));
\* Math.floor(resources * 0.8) is (8 * resources) div 10 for amounts below 2000
defensePath(state, armor, targetArmor) ==
    IF state.resources > 0 /\ ~hasArmorAction(state.actions)
    THEN ArmorOf(state, Min(state.resources,
                            Max(Max(0, targetArmor - armor) + 20,
                                (state.resources * 8) \div 10)))
    ELSE state

\* computeCombatActions: the armor of the savings path
savingsArmor(state, level, armor) ==
    IF Max(0, state.resources - upgradeCost(level)) > 0 /\ ~hasArmorAction(state.actions)
    THEN ArmorOf(state, Min(Max(0, state.resources - upgradeCost(level)),
                            MAX_USEFUL_ARMOR - armor))
    ELSE state

savingsPath(state, level, armor, shouldUpgrade) ==
    IF shouldUpgrade
    THEN upgradeIfAffordable(savingsArmor(state, level, armor), level)
    ELSE savingsArmor(state, level, armor)

\* computeCombatActions: phases 1 and 2
buildUp(state, turn_, level, hp, armor, targetArmor) ==
    leftoverArmor(
        IF /\ getShouldUpgrade(turn_, level, hp, armor, state.resources, targetArmor)
           /\ state.resources >= upgradeCost(level)
        THEN upgradePath(state, level, armor, targetArmor)
        ELSE IF hp < HP_SAFETY_THRESHOLD \/ armor < targetArmor \/ armor < MIN_ARMOR_FLOOR
        THEN defensePath(state, armor, targetArmor)
        ELSE savingsPath(state, level, armor,
                         getShouldUpgrade(turn_, level, hp, armor, state.resources,
                                          targetArmor)),
        armor)

\* computeCombatActions after the kill shot and the retaliation
afterRetaliation(request, aliveTowers, state) ==
    IF request.turn >= AGGRESSION_TURN
    THEN executeEndgameStrategy(state.actions, state.resources,
                                request.playerTower.armor, aliveTowers, request.turn,
                                request.playerTower.hp, request.previousAttacks,
                                request.playerTower.playerId)
    ELSE buildUp(state, request.turn, request.playerTower.level,
                 request.playerTower.hp, request.playerTower.armor,
                 Min(request.playerTower.level * AGGRESSIVE_ARMOR_PER_LEVEL,
                     MAX_USEFUL_ARMOR))

\* computeCombatActions once the kill target is known
afterKillTarget(request, aliveTowers, killTarget) ==
    afterRetaliation(request, aliveTowers,
        retaliation(killShot([actions |-> <<>>,
                              resources |-> request.playerTower.resources],
                             aliveTowers, killTarget),
                    aliveTowers,
                    findTopAggressor(request.previousAttacks,
                                     request.playerTower.playerId),
                    killTarget))

computeCombatActions(request) ==
    IF aliveEnemies(request.enemyTowers) = <<>> THEN <<>>
    ELSE afterKillTarget(request, aliveEnemies(request.enemyTowers),
                         findBestKillTarget(aliveEnemies(request.enemyTowers),
                                            request.playerTower.resources,
                                            request.previousAttacks,
                                            request.playerTower.playerId))

\* The requests asked of the bot: tower 1 against towers 2 and 3
BotResources == {0, 10, 50, 87, 100, 137, 160, 250, 400}
BotHp == {50, 85, 100}
BotArmor == {0, 30, 80, 310}
BotLevels == {1, 2, 3}
BotTurns == {3, 10, 20, 24, 25}
EnemyHp == {0, 40, 100}
EnemyArmor == {0, 50}
BotPreviousAttacks ==
    {<<>>,
     <<[playerId |-> 2, action |-> [targetId |-> 1, troopCount |-> 10]]>>,
     <<[playerId |-> 3, action |-> [targetId |-> 1, troopCount |-> 40]],
       [playerId |-> 2, action |-> [targetId |-> 3, troopCount |-> 5]]>>,
     <<[playerId |-> 2, action |-> [targetId |-> 1, troopCount |-> 30]],
       [playerId |-> 3, action |-> [targetId |-> 1, troopCount |-> 30]]>>}

InitBot ==
    /\ \E r \in BotResources, h \in BotHp, a \in BotArmor, l \in BotLevels,
          t \in BotTurns, h2 \in EnemyHp, a2 \in EnemyArmor, h3 \in EnemyHp \ {40},
          prev \in BotPreviousAttacks :
          /\ turn = t
          /\ previousAttacks = prev
          /\ towers = [i \in PlayerIds |->
                IF i = 1
                THEN [NewTower(i, "bot") EXCEPT
                        !.resources = r, !.hp = h, !.armor = a, !.level = l]
                ELSE IF i = 2
                THEN [NewTower(i, "any") EXCEPT !.hp = h2, !.armor = a2]
                ELSE IF i = 3
                THEN [NewTower(i, "any") EXCEPT !.hp = h3, !.level = 3, !.armor = 0]
                ELSE [NewTower(i, "any") EXCEPT !.hp = 0, !.armor = 0]]
    /\ diplomacyMessages = <<>>
    /\ eliminations = <<>>
    /\ pc = "asked"
    /\ pending = <<1>>
    /\ allActions = [i \in PlayerIds |-> <<>>]
    /\ attacks = <<>>
    /\ cursor = 0
    /\ lastCall = NoCall
    /\ lastResult = Failure
    /\ winner = 0

\* The engine's combat request to tower 1 and the bot's answer
BotAnswers ==
    /\ pc = "asked"
    /\ lastCall' = CombatRequest(1)
    /\ lastResult' = Reply(computeCombatActions(CombatRequest(1)))
    /\ pc' = "answered"
    /\ UNCHANGED <<turn, towers, previousAttacks, diplomacyMessages, eliminations,
                   pending, allActions, attacks, cursor, winner>>

SpecBot == InitBot /\ [][BotAnswers]_vars

(***************************************************************************)
(* Properties                                                              *)
(***************************************************************************)
\* What the combat phase charges for one validated action
ActionCost(action, tower) ==
    IF action.type = "armor" THEN action.amount
    ELSE IF action.type = "upgrade" THEN upgradeCost(tower.level)
    ELSE action.troopCount

RECURSIVE TotalCost(_, _)
TotalCost(actions, tower) ==
    IF actions = <<>> THEN 0
    ELSE ActionCost(Head(actions), tower) + TotalCost(Tail(actions), tower)

\* Tower i's actions are validated and not yet applied
AwaitsProcessing(i) ==
    \/ pc = "collect"
    \/ pc = "process" /\ \E k \in 1..Len(pending) : pending[k] = i

CountType(actions, type) ==
    Cardinality({k \in 1..Len(actions) : actions[k].type = type})

\* C1: the costs of the actions validateActions accepts for a tower (armor
\* amount, upgradeCost(level), attack troopCount) add up to at most the
\* resources the tower has when they are validated.
C1_NoOverspend ==
    \A i \in PlayerIds :
        AwaitsProcessing(i) => TotalCost(allActions[i], towers[i]) <= towers[i].resources

\* A submission that asked for more than the tower owns, of which a part was
\* accepted that spends all of it
C1_Witness ==
    /\ pc = "collect" /\ lastCall.playerId = 2
    /\ towers[2].resources > 0
    /\ Len(allActions[2]) >= 2
    /\ Len(lastResult.data) > Len(allActions[2])
    /\ TotalCost(allActions[2], towers[2]) = towers[2].resources

\* C2: the accepted actions of a tower hold at most one armor action, at most
\* one upgrade action, and attacks on pairwise distinct targets.
C2_OncePerTurn ==
    \A i \in PlayerIds :
        LET acc == allActions[i] IN
        /\ CountType(acc, "armor") <= 1
        /\ CountType(acc, "upgrade") <= 1
        /\ \A a, b \in 1..Len(acc) :
              (a # b /\ acc[a].type = "attack" /\ acc[b].type = "attack")
                  => acc[a].targetId # acc[b].targetId

\* Two upgrades and two attacks on one tower were asked for, all affordable,
\* and one of each was accepted
C2_Witness ==
    /\ pc = "collect" /\ lastCall.playerId = 2
    /\ towers[2].resources = 100 /\ towers[2].level = 1
    /\ lastResult.data = <<RawUpgrade, RawUpgrade, RawAttack(Num(1), Num(30))>>
       \/ lastResult.data = <<RawAttack(Num(1), Half(41)), RawAttack(Num(1), Num(30)),
                              RawUpgrade>>
    /\ Len(allActions[2]) = 2

\* The state of validateActions' loop after the first k actions of raw
LoopAfter(raw, k, tower, ts) ==
    validateLoop(ValidationStart, SubSeq(raw, 1, k), tower, ts)

\* Whether the k-th action of raw is accepted
AcceptedAt(raw, k, tower, ts) ==
    Len(LoopAfter(raw, k, tower, ts).validated)
        > Len(LoopAfter(raw, k - 1, tower, ts).validated)

\* The first k actions of raw without the rejected ones
RECURSIVE AcceptedOnly(_, _, _, _)
AcceptedOnly(raw, k, tower, ts) ==
    IF k = 0 THEN <<>>
    ELSE AcceptedOnly(raw, k - 1, tower, ts)
         \o (IF AcceptedAt(raw, k, tower, ts) THEN <<raw[k]>> ELSE <<>>)

\* C6: a rejected action leaves the running total as it was, and an action
\* that would be accepted were the rejected actions before it removed from
\* the list is accepted with them present.
C6_RejectionIsLocal ==
    (pc = "collect" /\ lastCall.playerId = 2 /\ lastResult.isArray) =>
        LET raw == lastResult.data
            tower == towers[2]
        IN \A k \in 1..Len(raw) :
              /\ ~AcceptedAt(raw, k, tower, towers) =>
                    LoopAfter(raw, k, tower, towers).totalCost
                        = LoopAfter(raw, k - 1, tower, towers).totalCost
              /\ LET cleaned == Append(AcceptedOnly(raw, k - 1, tower, towers), raw[k])
                 IN AcceptedAt(cleaned, Len(cleaned), tower, towers)
                        => AcceptedAt(raw, k, tower, towers)

\* An armor action too dear and an attack on the asked tower itself were
\* rejected, and the armor, the upgrade and the attack after them accepted
C6_Witness ==
    /\ pc = "collect" /\ lastCall.playerId = 2
    /\ towers[2].resources = 50
    /\ lastResult.data = <<RawArmor(Num(80)), RawAttack(Num(2), Num(1)),
                           RawArmor(Num(30))>>
    /\ allActions[2] = <<ArmorAction(30)>>

\* C7: every attack accepted for a tower targets an existing tower other than
\* the tower itself that has hp > 0 when the actions are validated.
C7_AttackTargets ==
    \A i \in PlayerIds :
        AwaitsProcessing(i) =>
            \A k \in 1..Len(allActions[i]) :
                allActions[i][k].type = "attack" =>
                    /\ allActions[i][k].targetId \in PlayerIds
                    /\ allActions[i][k].targetId # i
                    /\ towers[allActions[i][k].targetId].hp > 0

\* Attacks on the asked tower itself, on an eliminated tower and on tower 1
\* were asked for, and the one on tower 1 accepted
C7_Witness ==
    /\ pc = "collect" /\ lastCall.playerId = 2
    /\ lastResult.data = <<RawAttack(Num(2), Num(1)), RawAttack(Num(3), Num(1)),
                           RawAttack(Num(1), Num(30))>>
    /\ allActions[2] = <<AttackAction(1, 30)>>

\* C3: every tower's resources are >= 0 in every state of a match, and the
\* debit of the combat phase is at most what the tower holds.
C3_ResourcesNonNegative ==
    \A i \in PlayerIds :
        /\ towers[i].resources >= 0
        /\ (pc = "process" /\ pending # <<>> /\ Head(pending) = i) =>
              processTower(towers[i], allActions[i], attacks).tower.resources >= 0

\* A tower was debited all it held, a turn's income, for two attacks
C3_Witness ==
    /\ pc = "resolve" /\ turn >= 2
    /\ \E i \in PlayerIds :
          /\ towers[i].resources = 0
          /\ Len(allActions[i]) = 2
          /\ TotalCost(allActions[i], towers[i]) = resourcesPerTurn(towers[i].level)

\* C4: every tower has hp >= 0 and armor >= 0 in every state of a match.
C4_HpArmorNonNegative ==
    \A i \in PlayerIds : towers[i].hp >= 0 /\ towers[i].armor >= 0

\* Two attacks of more troops together than any hp were resolved on a
\* builder's tower, which never has armor, and it is eliminated in this turn
C4_Witness ==
    /\ pc = "resolve" /\ cursor > 2
    /\ LET first == attacks[cursor - 2]
           second == attacks[cursor - 1]
           t == second.action.targetId
       IN /\ first.action.targetId = t
          /\ first.action.troopCount < STARTING_HP
          /\ first.action.troopCount + second.action.troopCount > STARTING_HP
          /\ towers[t].botUrl = "builder"
          /\ towers[t].hp = 0 /\ towers[t].armor = 0
          /\ \E k \in 1..Len(eliminations) :
                eliminations[k] = [tower |-> t, turn |-> turn]

EntriesOf(elims, i) == {k \in 1..Len(elims) : elims[k].tower = i}

IsPrefix(s, t) == Len(s) <= Len(t) /\ SubSeq(t, 1, Len(s)) = s

\* A tower is in eliminations iff its hp is 0, and at most once
C5_Record ==
    \A i \in PlayerIds :
        /\ (EntriesOf(eliminations, i) # {}) <=> (towers[i].hp = 0)
        /\ Cardinality(EntriesOf(eliminations, i)) <= 1

\* Records are only added, and the step that takes a tower's hp to 0 adds
\* the tower's record with the current turn
C5_Step ==
    /\ IsPrefix(eliminations, eliminations')
    /\ \A i \in PlayerIds :
          (towers[i].hp > 0 /\ towers'[i].hp = 0) =>
              \E k \in 1..Len(eliminations') :
                  eliminations'[k] = [tower |-> i, turn |-> turn]

\* C5: a tower is in the eliminations list iff its hp is 0, at most once,
\* with the turn in which its hp reached 0, whatever targets it afterwards.
C5_Eliminations == []C5_Record /\ [][C5_Step]_vars

\* Two finishers sent what kills a flaky agent's tower; the second attack
\* found it at hp 0, and it has its one record, of this turn
C5_Witness ==
    /\ pc = "resolve"
    /\ \E a, b \in 1..Len(attacks) :
          /\ a < b /\ b < cursor
          /\ attacks[a].action.targetId = attacks[b].action.targetId
          /\ towers[attacks[a].playerId].botUrl = "finisher"
          /\ towers[attacks[b].playerId].botUrl = "finisher"
          /\ LET t == attacks[a].action.targetId
             IN /\ towers[t].botUrl = "flaky"
                /\ towers[t].hp = 0
                /\ \E k \in 1..Len(eliminations) :
                      eliminations[k] = [tower |-> t, turn |-> turn]

\* C8: an upgrade is accepted only below MAX_LEVEL, and every tower's level
\* is in 1..MAX_LEVEL in every state of a match.
C8_LevelRange ==
    \A i \in PlayerIds :
        /\ towers[i].level \in 1..MAX_LEVEL
        /\ (AwaitsProcessing(i) /\ CountType(allActions[i], "upgrade") > 0)
              => towers[i].level < MAX_LEVEL

\* A tower at MAX_LEVEL that can pay upgradeCost(MAX_LEVEL) asked for an
\* upgrade and got none
C8_Witness ==
    /\ pc \in {"collect", "process"}
    /\ lastCall.path = "/combat"
    /\ LET i == lastCall.playerId
       IN /\ towers[i].level = MAX_LEVEL
          /\ towers[i].resources >= upgradeCost(MAX_LEVEL)
          /\ lastResult.data = <<RawUpgrade, RawUpgrade>>
          /\ allActions[i] = <<>>

\* The towers after one attack of the queue, by section 4.5 of the rules
AfterAttack(ts, attack) ==
    LET t == attack.action.targetId
        n == attack.action.troopCount
        absorbed == Min(ts[t].armor, n)
    IN IF ts[t].hp > 0
       THEN [ts EXCEPT ![t].armor = @ - absorbed,
                       ![t].hp = Max(0, @ - (n - absorbed))]
       ELSE ts

\* The actions of the towers the processing loop has visited
Processed ==
    [i \in PlayerIds |->
        IF pc = "process" /\ \E k \in 1..Len(pending) : pending[k] = i
        THEN <<>> ELSE allActions[i]]

\* The queue holds the accepted attacks in tower order and, within a tower,
\* in the order of its submission
C10_Queue ==
    pc \in {"process", "resolve"} => attacks = Queued(Processed, 1)

\* No attack is resolved while actions are applied; then one attack at a
\* time is resolved, in queue order, on the towers as the attacks before it
\* left them, and nothing else of a tower changes
C10_Step ==
    /\ pc = "process" =>
          /\ \A i \in PlayerIds : towers'[i].hp = towers[i].hp
          /\ pc' = "resolve" => (pending' = <<>> /\ cursor' = 1)
    /\ pc # "resolve" => \A i \in PlayerIds : towers'[i].armor >= towers[i].armor
    /\ (pc = "resolve" /\ pc' = "resolve") =>
          /\ cursor' = cursor + 1
          /\ attacks' = attacks
          /\ towers' = AfterAttack(towers, attacks[cursor])
    /\ (pc = "resolve" /\ pc' # "resolve") =>
          (cursor = Len(attacks) + 1 /\ towers' = towers)

\* C10: the accepted attacks are queued in tower order and submission order
\* and resolved one at a time in that order, after every tower's armor and
\* upgrade are applied, each on the armor and hp the attacks before it left.
C10_AttackOrder == []C10_Queue /\ [][C10_Step]_vars

\* Four attacks were resolved, two of them one tower's, on a turtle that two
\* towers attacked: its armor is gone and its hp reduced
C10_Witness ==
    /\ pc = "resolve" /\ cursor > Len(attacks) /\ Len(attacks) >= 4
    /\ \E c \in 1..(Len(attacks) - 1) : attacks[c].playerId = attacks[c + 1].playerId
    /\ \E a, b \in 1..Len(attacks) :
          /\ a < b
          /\ attacks[a].playerId # attacks[b].playerId
          /\ attacks[a].action.targetId = attacks[b].action.targetId
          /\ attacks[a].action.troopCount > 0 /\ attacks[b].action.troopCount > 0
          /\ LET t == attacks[a].action.targetId
             IN /\ towers[t].botUrl = "turtle"
                /\ CountType(allActions[t], "armor") = 1
                /\ towers[t].armor = 0
                /\ towers[t].hp > 0

\* C9: one attack of n troops on an alive target with armor a and hp h
\* leaves armor a - min(a, n) and hp max(0, h - (n - min(a, n))); with a = 30,
\* h = 40, n = 50 that is armor 0 and hp 20, with a = 60, h = 40, n = 50 armor
\* 10 and hp 40, and the target is not eliminated.
C9_Step ==
    (pc = "resolve" /\ cursor <= Len(attacks) /\ cursor' = cursor + 1
        /\ towers[attacks[cursor].action.targetId].hp > 0) =>
        LET t == attacks[cursor].action.targetId
            n == attacks[cursor].action.troopCount
            a == towers[t].armor
            h == towers[t].hp
        IN /\ towers'[t].armor = a - Min(a, n)
           /\ towers'[t].hp = Max(0, h - (n - Min(a, n)))
           /\ (a = 30 /\ h = 40 /\ n = 50) =>
                 /\ towers'[t].armor = 0 /\ towers'[t].hp = 20
                 /\ EntriesOf(eliminations', t) = {}
           /\ (a = 60 /\ h = 40 /\ n = 50) =>
                 /\ towers'[t].armor = 10 /\ towers'[t].hp = 40
                 /\ EntriesOf(eliminations', t) = {}

C9_AttackResolution == [][C9_Step]_vars

\* The first attack of the queue, 50 troops on tower 2 with armor 30 and hp
\* 40, was resolved: armor 0, hp 20, no record
C9_Witness ==
    /\ pc = "resolve" /\ cursor = 2
    /\ attacks[1].action = [targetId |-> 2, troopCount |-> 50]
    /\ towers[2].armor = 0 /\ towers[2].hp = 20
    /\ EntriesOf(eliminations, 2) = {}

\* An attack that finds its target at hp 0 changes no tower and adds no
\* record; the queue keeps every attack, and the whole queue becomes
\* previousAttacks
C11_Step ==
    /\ (pc = "resolve" /\ cursor <= Len(attacks)) =>
          /\ attacks' = attacks
          /\ towers[attacks[cursor].action.targetId].hp = 0 =>
                (towers' = towers /\ eliminations' = eliminations)
    /\ (pc = "resolve" /\ cursor > Len(attacks)) => previousAttacks' = attacks

\* C11: an attack whose target has hp 0 when it is processed changes no
\* tower's hp or armor and adds no elimination record, and is still in the
\* attack list that becomes previousAttacks.
C11_DeadTargetNoOp == [][C11_Step]_vars

\* Tower 1's 50 troops took tower 2 from hp 40 to 0; tower 3's 50 troops
\* then found it at hp 0, and both attacks are in previousAttacks
C11_Witness ==
    /\ pc = "fatigue"
    /\ previousAttacks =
          <<[playerId |-> 1, action |-> [targetId |-> 2, troopCount |-> 50]],
            [playerId |-> 3, action |-> [targetId |-> 2, troopCount |-> 50]]>>
    /\ towers[2].hp = 0
    /\ Cardinality(EntriesOf(eliminations, 2)) = 1

\* The list of earlier attacks a request carries
CarriedAttacks(call) ==
    IF call.path = "/negotiate" THEN call.combatActions ELSE call.previousAttacks

\* A request of the running turn carries game.previousAttacks, which in
\* turn 1 is empty
C12_Requests ==
    (lastCall.path \in {"/negotiate", "/combat"} /\ lastCall.turn = turn
        /\ pc \in {"negotiate", "diplomacy", "collect", "process", "resolve", "crash"}) =>
        /\ CarriedAttacks(lastCall) = previousAttacks
        /\ turn = 1 => CarriedAttacks(lastCall) = <<>>

\* previousAttacks changes only at the end of the combat phase, to the
\* queue of the turn's accepted attacks
C12_Step ==
    IF pc = "resolve" /\ cursor > Len(attacks)
    THEN previousAttacks' = attacks /\ attacks = Queued(allActions, 1)
    ELSE previousAttacks' = previousAttacks

\* C12: after the combat phase of turn t previousAttacks is exactly the
\* attack queue of turn t, replacing the earlier list; the requests of turn
\* t+1 carry it, and the requests of turn 1 carry the empty list.
C12_PreviousAttacks == []C12_Requests /\ [][C12_Step]_vars

\* In turn 3 or later a /combat request carried the one attack of the turn
\* before
C12_Witness ==
    /\ pc = "collect" /\ turn >= 3
    /\ lastCall.path = "/combat" /\ lastCall.turn = turn
    /\ lastCall.previousAttacks = previousAttacks
    /\ Len(previousAttacks) = 1

\* The phase that follows each phase of an iteration; the loops over the
\* towers stay in their phase until the last tower
PhaseOrder(from, to) ==
    \/ from = "turn" /\ to = "clear"
    \/ from = "clear" /\ to = "income"
    \/ from = "income" /\ to = "negotiate"
    \/ from = "negotiate" /\ to \in {"negotiate", "diplomacy"}
    \/ from = "diplomacy" /\ to = "collect"
    \/ from = "collect" /\ to \in {"collect", "process"}
    \/ from = "process" /\ to \in {"process", "resolve"}
    \/ from = "resolve" /\ to \in {"resolve", "fatigue"}
    \/ from = "fatigue" /\ to = "check"
    \/ from = "check" /\ to \in {"loop", "over"}
    \/ from = "loop" /\ to \in {"turn", "limit"}

InIteration ==
    pc \in {"turn", "clear", "income", "negotiate", "diplomacy", "collect",
            "process", "resolve", "fatigue", "check"}

\* Every step of an iteration leads to the next phase in order, and the
\* turn counter moves only in the first
C13_Step ==
    /\ InIteration => PhaseOrder(pc, pc')
    /\ turn' # turn => (pc = "turn" /\ turn' = turn + 1)

\* C13: each loop iteration performs, in this order and each once:
\* increment of turn, clearing of the inbox, income, negotiation, combat,
\* fatigue, check; no step of turn t+1 precedes the check of turn t.
C13_IterationOrder == [][C13_Step]_vars

\* What holds of the phases: the same order, unless the negotiation throws
C13_StepOrThrow ==
    /\ InIteration =>
          \/ PhaseOrder(pc, pc')
          \/ pc \in {"negotiate", "diplomacy"} /\ pc' = "crash"
    /\ turn' # turn => (pc = "turn" /\ turn' = turn + 1)

C13_OrderOrThrow == [][C13_StepOrThrow]_vars

\* A turn starts only below MAX_TURNS with more than one tower alive; the
\* check ends the match with the only alive tower as winner, or with none
\* alive and no winner, and goes on otherwise; nothing else ends a match
\* with a result, and the turn limit ends it with no winner
C14_Step ==
    LET alive == getAliveTowers(towers) IN
    /\ pc' = "turn" => (turn < MAX_TURNS /\ Len(alive) > 1)
    /\ pc = "check" =>
          IF Len(alive) = 1 THEN pc' = "over" /\ winner' = alive[1]
          ELSE IF Len(alive) = 0 THEN pc' = "over" /\ winner' = 0
          ELSE pc' = "loop" /\ winner' = 0
    /\ pc' = "over" => pc = "check"
    /\ pc' = "limit" => (turn = MAX_TURNS /\ Len(alive) > 1 /\ winner' = 0)
    /\ pc # "check" => winner' = winner

\* A finished match has a winner iff exactly one tower is alive, and that
\* tower is the winner; otherwise none is alive
C14_Outcome ==
    pc = "over" =>
        LET alive == getAliveTowers(towers) IN
        /\ winner # 0 <=> Len(alive) = 1
        /\ winner # 0 => alive = <<winner>>
        /\ winner = 0 => alive = <<>>

\* C14: a new turn starts only while turn < MAX_TURNS and more than one
\* tower is alive; the match ends as Winner exactly when one tower is alive
\* at the check, as Draw exactly when none is, and at the turn limit with
\* no winner when turn reaches MAX_TURNS with more than one alive.
C14_Termination == []C14_Outcome /\ [][C14_Step]_vars

\* A match won before fatigue starts: one tower alive, the others fallen
C14_Witness ==
    /\ pc = "over" /\ winner # 0 /\ turn < FATIGUE_START_TURN
    /\ towers[winner].hp > 0
    /\ \A i \in PlayerIds \ {winner} : towers[i].hp = 0
    /\ Len(eliminations) = NumTowers - 1

\* After a failed health check the run is over: turn 0, the towers as
\* constructed, and the failed /healthz call the last call made
C15_Aborted ==
    pc = "exit" =>
        /\ turn = 0
        /\ \A i \in PlayerIds : towers[i] = NewTower(i, towers[i].botUrl)
        /\ lastCall.path = "/healthz" /\ ~healthy(lastResult)

\* A turn, or a call of /negotiate or /combat, is only reached when every
\* tower's agent passes the health check
C15_Started ==
    (turn > 0 \/ lastCall.path \in {"/negotiate", "/combat"}) =>
        \A i \in PlayerIds : \A r \in AgentHealth(towers[i].botUrl) : healthy(r)

\* A health check that fails ends the run at once, and nothing follows
C15_Step ==
    /\ (pc = "health" /\ ~healthy(lastResult')) => pc' = "exit"
    /\ pc # "exit"

\* C15: if the health check of any tower's agent fails, the run aborts with
\* turn still 0: no income is applied and no /negotiate or /combat request
\* is ever sent.
C15_HealthFailureAborts == [](C15_Aborted /\ C15_Started) /\ [][C15_Step]_vars

\* The agents of towers 1 and 2 passed; the agent of tower 3 answered with a
\* status that is not "OK", and the run is over
C15_Witness ==
    /\ pc = "exit"
    /\ lastCall = HealthRequest(3)
    /\ lastResult = HealthReply("DOWN")
    /\ turn = 0

\* A call that failed, or whose reply is no array
Unusable(result) == ~result.success \/ ~result.isArray

\* The step of a /negotiate or /combat call that failed or answered no array
\* leaves what the step of an empty list leaves: nothing stored, no action
\* accepted, and the loop at its next tower or the next phase
C16_Step ==
    /\ (pc = "negotiate" /\ Unusable(lastResult')) =>
          /\ diplomacyMessages' =
                StoreMessages(diplomacyMessages, Head(pending), <<>>).messages
          /\ IF Tail(pending) = <<>>
             THEN pc' = "diplomacy" /\ pending' = <<>>
             ELSE pc' = "negotiate" /\ pending' = Tail(pending)
          /\ UNCHANGED <<turn, towers, previousAttacks, eliminations, allActions,
                         attacks, cursor, winner>>
    /\ (pc = "collect" /\ Unusable(lastResult')) =>
          /\ allActions' =
                [allActions EXCEPT ![Head(pending)] =
                    validateActions(<<>>, towers[Head(pending)], towers)]
          /\ IF Tail(pending) = <<>>
             THEN pc' = "process" /\ pending' = getAliveTowers(towers)
             ELSE pc' = "collect" /\ pending' = Tail(pending)
          /\ UNCHANGED <<turn, towers, previousAttacks, diplomacyMessages,
                         eliminations, attacks, cursor, winner>>

\* C16: a /negotiate or /combat call that times out, fails in transport or
\* returns a body that is no array or no JSON leaves the match in the state
\* an empty list would have left, and the turn goes on.
C16_FailedCallIsEmpty == [][C16_Step]_vars

\* The last /combat call of a turn failed; the phase went on to apply the
\* actions accepted from the other towers
C16_Witness ==
    /\ pc = "process"
    /\ lastCall.path = "/combat" /\ lastResult = Failure
    /\ allActions[lastCall.playerId] = <<>>
    /\ \E j \in PlayerIds : allActions[j] # <<>>

\* While the actions are collected, the latest request is the one built from
\* the towers, inbox and previous attacks as they are, which are those of
\* the start of the combat phase, and the actions kept for the tower asked
\* are what validation makes of its own reply
C17_Request ==
    (pc = "collect" /\ lastCall.path = "/combat" /\ lastCall.turn = turn) =>
        LET b == lastCall.playerId IN
        /\ lastCall = CombatRequest(b)
        /\ allActions[b] = Collected(lastResult, towers[b], towers)

\* A call changes nothing a request is built from and no other tower's
\* actions; applying a tower's actions debits that tower the cost of its own
\* actions and changes no other tower and no tower's actions
C17_Step ==
    /\ pc = "collect" =>
          /\ UNCHANGED <<turn, towers, diplomacyMessages, previousAttacks>>
          /\ \A j \in PlayerIds \ {Head(pending)} : allActions'[j] = allActions[j]
    /\ pc = "process" =>
          LET b == Head(pending) IN
          /\ towers'[b].resources =
                towers[b].resources - TotalCost(allActions[b], towers[b])
          /\ \A j \in PlayerIds \ {b} : towers'[j] = towers[j]
          /\ allActions' = allActions

\* C17: in the combat phase the request sent to a tower, the actions
\* accepted for it and the resources debited from it depend only on the
\* state before the phase and on its own reply, whatever another tower's
\* call resolves to and wherever that tower is in tower order.
C17_CombatIsolation == []C17_Request /\ [][C17_Step]_vars

\* A flaky agent's tower was asked between two towers from which actions
\* were accepted, the later of them just now
C17_Witness ==
    /\ pc = "collect" /\ lastCall.path = "/combat" /\ lastCall.turn = turn
    /\ allActions[lastCall.playerId] # <<>>
    /\ \E a, c \in PlayerIds :
          /\ c < a /\ a < lastCall.playerId
          /\ towers[a].botUrl = "flaky" /\ towers[a].hp > 0
          /\ allActions[c] # <<>>

\* The income step adds resourcesPerTurn(level) to each tower with hp > 0
\* and leaves the others alone; no other step adds resources; negotiation
\* starts from the income step only
C18_Step ==
    /\ pc = "income" =>
          \A i \in PlayerIds :
              /\ towers'[i].hp > 0 =>
                    towers'[i].resources =
                        towers[i].resources + resourcesPerTurn(towers[i].level)
              /\ towers'[i].hp = 0 => towers'[i].resources = towers[i].resources
              /\ towers'[i].hp = towers[i].hp /\ towers'[i].level = towers[i].level
              /\ towers'[i].armor = towers[i].armor
    /\ pc # "income" =>
          \A i \in PlayerIds : towers'[i].resources <= towers[i].resources
    /\ (pc # "negotiate" /\ pc' = "negotiate") => pc = "income"
    /\ pc = "turn" => pc' = "clear"
    /\ pc = "clear" => pc' = "income"

\* A /negotiate request of the running turn shows the resources its tower
\* has after the income, which in turn 1 is resourcesPerTurn(1) = 20
C18_Request ==
    (pc = "negotiate" /\ lastCall.path = "/negotiate" /\ lastCall.turn = turn) =>
        /\ lastCall.playerTower.resources = towers[lastCall.playerId].resources
        /\ turn = 1 => lastCall.playerTower.resources = 20

C19_Table ==
    \A i \in PlayerIds :
        LET l == towers[i].level
            u == upgradeCost(l)
            r == resourcesPerTurn(l)
        IN /\ 4 ^ (l - 1) * u <= 50 * 7 ^ (l - 1)
           /\ 50 * 7 ^ (l - 1) < 4 ^ (l - 1) * (u + 1)
           /\ 2 ^ (l - 1) * r <= 20 * 3 ^ (l - 1)
           /\ 20 * 3 ^ (l - 1) < 2 ^ (l - 1) * (r + 1)
           /\ l < MAX_LEVEL =>
                 (u < upgradeCost(l + 1) /\ r < resourcesPerTurn(l + 1))
           /\ l = 1 => (u = 50 /\ r = 20)
           /\ l = 2 => (u = 87 /\ r = 30)
           /\ l = 3 => u = 153

\* The costs as they are charged and paid out: an accepted upgrade debits
\* upgradeCost of the level before it, the income step pays resourcesPerTurn
C19_Step ==
    /\ (pc = "process" /\ allActions[Head(pending)] = <<UpgradeAction>>) =>
          LET b == Head(pending) IN
          /\ towers'[b].level = towers[b].level + 1
          /\ towers[b].level = 1 => towers'[b].resources = towers[b].resources - 50
          /\ towers[b].level = 2 => towers'[b].resources = towers[b].resources - 87
          /\ towers[b].level = 3 => towers'[b].resources = towers[b].resources - 153
    /\ pc = "income" =>
          \A i \in PlayerIds :
              /\ (towers[i].hp > 0 /\ towers[i].level = 1) =>
                    towers'[i].resources = towers[i].resources + 20
              /\ (towers[i].hp > 0 /\ towers[i].level = 2) =>
                    towers'[i].resources = towers[i].resources + 30

C20_Damage ==
    /\ turn < 25 => fatigueDamage(turn) = 0
    /\ turn >= 25 => fatigueDamage(turn) = (turn - 24) * 5
    /\ turn = 25 => fatigueDamage(turn) = 5
    /\ turn = 26 => fatigueDamage(turn) = 10
    /\ turn = 27 => fatigueDamage(turn) = 15

\* The fatigue step takes that damage from the hp of every alive tower
C20_Step ==
    pc = "fatigue" =>
        \A i \in PlayerIds :
            towers'[i].hp =
                IF turn < 25 THEN towers[i].hp
                ELSE Max(0, towers[i].hp - (turn - 24) * 5)

\* C20: fatigueDamage(turn) is 0 for every turn < 25 and (turn - 24) * 5
\* for every turn >= 25: 5 at 25, 10 at 26, 15 at 27.
C20_FatigueDamage == []C20_Damage /\ [][C20_Step]_vars

\* After the fatigue of turn 27 a tower untouched by attacks has lost
\* 5 + 10 + 15 of its 100 hp
C20_Witness ==
    /\ pc = "check" /\ turn = 27
    /\ \E i \in PlayerIds : towers[i].hp = STARTING_HP - 30

\* The towers the step takes from hp > 0 to hp 0
Falling == {i \in PlayerIds : towers[i].hp > 0 /\ towers'[i].hp = 0}

\* The fatigue step follows the last attack of the turn and is followed by
\* the check; from turn 25 on it takes min(hp, fatigueDamage(turn)) from the
\* hp of each alive tower and nothing else from any tower, before that it
\* takes nothing; each tower it brings to hp 0 gets one record of this turn
C21_Step ==
    /\ pc' = "fatigue" => (pc = "resolve" /\ cursor = Len(attacks) + 1)
    /\ pc = "fatigue" =>
          /\ pc' = "check"
          /\ \A i \in PlayerIds :
                /\ towers'[i].armor = towers[i].armor
                /\ towers'[i].resources = towers[i].resources
                /\ towers'[i].level = towers[i].level
                /\ towers'[i].hp =
                      IF turn >= 25 /\ towers[i].hp > 0
                      THEN towers[i].hp - Min(towers[i].hp, fatigueDamage(turn))
                      ELSE towers[i].hp
          /\ Len(eliminations') = Len(eliminations) + Cardinality(Falling)
          /\ \A i \in Falling :
                \E k \in (Len(eliminations) + 1)..Len(eliminations') :
                    eliminations'[k] = [tower |-> i, turn |-> turn]
    /\ pc \notin {"resolve", "fatigue"} =>
          \A i \in PlayerIds : towers'[i].hp = towers[i].hp

\* C21: fatigue is applied once per turn, after the turn's attacks are
\* resolved and only from turn 25 on: every tower alive then loses
\* min(hp, fatigueDamage(turn)) hp, its armor unchanged, each tower so
\* brought to hp 0 gets its own elimination record, and dead towers are
\* untouched.
C21_Fatigue == [][C21_Step]_vars

\* In a turn without attacks fatigue took two towers to hp 0, one of them
\* with armor left, while a third had fallen in an earlier turn
C21_Witness ==
    /\ pc = "check" /\ turn >= FATIGUE_START_TURN /\ previousAttacks = <<>>
    /\ \E i, j, k \in PlayerIds :
          /\ i # j
          /\ towers[i].hp = 0 /\ towers[i].armor > 0
          /\ \E a, b, c \in 1..Len(eliminations) :
                /\ eliminations[a] = [tower |-> i, turn |-> turn]
                /\ eliminations[b] = [tower |-> j, turn |-> turn]
                /\ eliminations[c].tower = k /\ eliminations[c].turn < turn

\* The ranks getRankings gives tower i
RanksOf(rankings, i) ==
    {rankings[k].rank : k \in {n \in 1..Len(rankings) : rankings[n].tower = i}}

\* C22: at termination getRankings gives every alive tower rank 1 and the
\* eliminated towers, from the last record of the eliminations list to the
\* first, the ranks aliveCount+1, aliveCount+2, ...; with one survivor, the
\* last to fall (at turn 10, say) has rank 2 and the one that fell before it
\* (at turn 5, say) rank 3.
C22_Rankings ==
    pc = "over" =>
        LET rankings == getRankings(towers, eliminations)
            alive == getAliveTowers(towers)
            n == Len(eliminations)
        IN /\ Len(rankings) = NumTowers
           /\ \A i \in PlayerIds : towers[i].hp > 0 => RanksOf(rankings, i) = {1}
           /\ \A k \in 1..n :
                 RanksOf(rankings, eliminations[k].tower) = {Len(alive) + (n - k + 1)}
           /\ (Len(alive) = 1 /\ n >= 2
                  /\ eliminations[n].turn > eliminations[n - 1].turn) =>
                 /\ RanksOf(rankings, eliminations[n].tower) = {2}
                 /\ RanksOf(rankings, eliminations[n - 1].tower) = {3}

\* A match won at turn 10: the last tower fell in turn 10, the one before in
\* turn 8
C22_Witness ==
    /\ pc = "over" /\ winner # 0 /\ turn = 10
    /\ Len(eliminations) = NumTowers - 1
    /\ eliminations[NumTowers - 1].turn = 10
    /\ eliminations[NumTowers - 2].turn = 8

\* The fatigue step leaves no tower alive
FatigueKillsAll ==
    pc = "fatigue" /\ Falling # {} /\ \A i \in PlayerIds : towers'[i].hp = 0

\* C23 as claimed: when fatigue kills all remaining alive towers in the same
\* turn there is no winner, and the towers eliminated in that turn all have
\* the same rank.
C23_StepTied ==
    FatigueKillsAll =>
        /\ getWinner(towers') = 0
        /\ \A i, j \in Falling :
              RanksOf(getRankings(towers', eliminations'), i)
                = RanksOf(getRankings(towers', eliminations'), j)

C23_DrawTies == [][C23_StepTied]_vars

\* What holds: there is no winner, the check ends the match with none, and
\* the towers that fatigue killed have the ranks 1, 2, ... one each, a tower
\* later in tower order ranked better
C23_Step ==
    /\ FatigueKillsAll =>
          LET rankings == getRankings(towers', eliminations') IN
          /\ getWinner(towers') = 0
          /\ \A i \in Falling :
                RanksOf(rankings, i)
                    = {1 + Cardinality({j \in Falling : j > i})}
    /\ (pc = "check" /\ \A i \in PlayerIds : towers[i].hp = 0) =>
          (pc' = "over" /\ winner' = 0)

\* C23 amended: when fatigue kills all remaining alive towers in the same
\* turn the outcome is a draw with no winner, and those towers get the
\* distinct ranks 1, 2, ... in reverse order of their elimination records,
\* which fatigue writes in tower order.
C23_DrawRanks == [][C23_Step]_vars

\* A draw by fatigue: no attack in the last turn, no tower alive, and two
\* towers with records of that turn
C23_Witness ==
    /\ pc = "over" /\ winner = 0 /\ previousAttacks = <<>>
    /\ turn >= FATIGUE_START_TURN
    /\ \A i \in PlayerIds : towers[i].hp = 0
    /\ Cardinality({k \in 1..Len(eliminations) : eliminations[k].turn = turn}) >= 2

\* The inbox under a key of the map, a playerId or not
InboxAt(msgs, key) == IF key \in DOMAIN msgs THEN msgs[key] ELSE <<>>

\* The entries a reply's items give the inbox under a key: the items before
\* the first null whose allyId is a number other than 0 with that key
RECURSIVE Addressed(_, _, _)
Addressed(data, from, key) ==
    IF data = <<>> \/ Head(data).isNull THEN <<>>
    ELSE (IF IsNumber(Head(data).allyId) /\ Head(data).allyId.twice # 0
             /\ Head(data).allyId.twice = key
          THEN <<[playerId |-> from,
                  action |-> [allyId |-> Head(data).allyId,
                              attackTargetId |-> Head(data).attackTargetId]]>>
          ELSE <<>>)
         \o Addressed(Tail(data), from, key)

\* The keys a reply's items name
KeysOf(data) ==
    {data[k].allyId.twice : k \in {n \in 1..Len(data) : IsNumber(data[n].allyId)}}

\* A negotiation call was made in this step
NegotiateStep == pc = "negotiate" /\ lastCall'.path = "/negotiate"

C24_Step ==
    /\ pc = "income" => (pc' = "negotiate" /\ diplomacyMessages' = <<>>)
    /\ pc \notin {"clear", "negotiate"} => diplomacyMessages' = diplomacyMessages
    /\ NegotiateStep =>
          LET s == lastCall'.playerId IN
          /\ lastCall'.turn = turn
          /\ \A key \in DOMAIN diplomacyMessages' :
                LET old == InboxAt(diplomacyMessages, key)
                    new == diplomacyMessages'[key]
                IN /\ IsPrefix(old, new)
                   /\ \A k \in 1..Len(old) : old[k].playerId < s
                   /\ \A k \in Len(old) + 1..Len(new) :
                         new[k].playerId = s /\ new[k].action.allyId.twice = key
          /\ \A p \in PlayerIds :
                Inbox(diplomacyMessages', p)
                    = Inbox(diplomacyMessages, p)
                        \o (IF lastResult'.success /\ lastResult'.isArray
                            THEN Addressed(lastResult'.data, s, 2 * p) ELSE <<>>)
    /\ (pc = "collect" /\ lastCall'.path = "/combat") =>
          /\ lastCall'.turn = turn
          /\ lastCall'.diplomacy = Inbox(diplomacyMessages, lastCall'.playerId)

\* C24: the inbox is empty when a turn's negotiation starts; only the
\* negotiation calls of the turn add to it, each appending its sender's
\* messages after those of the towers before it; the combat request of the
\* turn carries the inbox of its tower as the negotiation left it, so never
\* a message of an earlier turn.
C24_Inbox == [][C24_Step]_vars

\* In turn 2 or later a combat request carried two senders' messages, and in
\* sender order
C24_Witness ==
    /\ lastCall.path = "/combat" /\ lastCall.turn >= 2
    /\ Len(lastCall.diplomacy) >= 2
    /\ lastCall.diplomacy[1].playerId < lastCall.diplomacy[Len(lastCall.diplomacy)].playerId

\* C25 as claimed: every message of a well-formed reply whose allyId is a
\* number is appended to the inbox of that allyId, and a failed or malformed
\* reply (no array, or an array with an item that is no message) appends
\* nothing.
C25_StepAll ==
    NegotiateStep =>
        LET s == lastCall'.playerId
            data == lastResult'.data
            wellFormed == /\ lastResult'.success /\ lastResult'.isArray
                          /\ \A k \in 1..Len(data) : ~data[k].isNull
        IN IF wellFormed
           THEN \A key \in KeysOf(data) :
                  Len(InboxAt(diplomacyMessages', key))
                    = Len(InboxAt(diplomacyMessages, key))
                      + Cardinality({k \in 1..Len(data) :
                            IsNumber(data[k].allyId) /\ data[k].allyId.twice = key})
           ELSE diplomacyMessages' = diplomacyMessages

C25_Step ==
    NegotiateStep =>
        LET s == lastCall'.playerId
            data == lastResult'.data
        IN IF lastResult'.success /\ lastResult'.isArray
           THEN /\ DOMAIN diplomacyMessages'
                     = DOMAIN diplomacyMessages
                         \cup {key \in KeysOf(data) : Addressed(data, s, key) # <<>>}
                /\ \A key \in DOMAIN diplomacyMessages' :
                      diplomacyMessages'[key]
                        = InboxAt(diplomacyMessages, key) \o Addressed(data, s, key)
           ELSE diplomacyMessages' = diplomacyMessages

OtherResources(ts, i) ==
    {[j \in PlayerIds |->
         IF j = i THEN ts[j] ELSE [ts[j] EXCEPT !.resources = f[j]]] :
     f \in [PlayerIds \ {i} -> {0, ts[i].resources}]}

\* The two views a request to tower i carries in match state ts
ViewsFor(ts, i) ==
    [playerTower |-> toPrivateView(ts[i]), enemyTowers |-> EnemyViews(ts, i, 1)]

C26_Step ==
    lastCall'.path \in {"/negotiate", "/combat"} /\ pc \in {"negotiate", "collect"} =>
        LET i == lastCall'.playerId
            views == [playerTower |-> lastCall'.playerTower,
                      enemyTowers |-> lastCall'.enemyTowers]
            enemies == lastCall'.enemyTowers
        IN /\ lastCall'.playerTower.resources = towers[i].resources
           /\ \A ts \in OtherResources(towers, i) : ViewsFor(ts, i) = views
           /\ {enemies[k].playerId : k \in 1..Len(enemies)}
                 = {j \in PlayerIds \ {i} : towers[j].hp > 0}
           /\ Len(enemies) = Cardinality({j \in PlayerIds \ {i} : towers[j].hp > 0})
           /\ \A k \in 1..Len(enemies) :
                 LET j == enemies[k].playerId IN
                 /\ DOMAIN enemies[k] = {"playerId", "hp", "armor", "level"}
                 /\ enemies[k].hp = towers[j].hp
                 /\ enemies[k].armor = towers[j].armor
                 /\ enemies[k].level = towers[j].level

\* C26: a negotiate or combat request carries the resources of its own tower
\* and is the same in every match state that differs only in the resources
\* of other towers; its views of other towers are those of the other towers
\* with hp > 0, each with playerId, hp, armor and level and nothing else.
C26_Views == [][C26_Step]_vars

\* A combat request to a tower while another tower is dead and an alive one
\* owns a different amount of resources than the tower asked
C26_Witness ==
    /\ lastCall.path = "/combat"
    /\ \E j \in PlayerIds : towers[j].hp = 0
    /\ \E k \in 1..Len(lastCall.enemyTowers) :
          towers[lastCall.enemyTowers[k].playerId].resources
              # lastCall.playerTower.resources

\* No step of the match from the current state that makes the call of this
\* step and gets the result of this step ends in another state than this step
C27_Step ==
    \A call \in {lastCall'} : \A result \in {lastResult'} : \A after \in {vars'} :
        ~ ENABLED (Next /\ lastCall' = call /\ lastResult' = result /\ vars' # after)

\* C27: the match is deterministic in the agents' responses: from a state of
\* the match, the call made and the result received determine the next state,
\* so two runs that receive the same result for every call have the same
\* towers, the same eliminations and the same outcome after every step and
\* every turn.
C27_Deterministic == [][C27_Step]_vars

\* A match of several turns, with an agent that could have answered in more
\* than one way, ended with a winner after eliminations in different turns
C27_Witness ==
    /\ pc = "over" /\ winner # 0 /\ turn >= 3
    /\ \E i \in PlayerIds : towers[i].botUrl = "flaky"
    /\ \E j, k \in 1..Len(eliminations) : eliminations[j].turn # eliminations[k].turn

\* The calls of one step, given where a phase may go before its last call
CallOrder(exits) ==
    /\ pc \notin {"health", "negotiate", "collect"} =>
          (lastCall' = lastCall /\ lastResult' = lastResult)
    /\ pc = "income" => (pc' = "negotiate" /\ pending' = getAliveTowers(towers'))
    /\ pc = "diplomacy" =>
          \/ pc' = "collect" /\ pending' = getAliveTowers(towers)
          \/ pc' \in exits
    /\ pc \in {"negotiate", "collect"} =>
          /\ pending # <<>>
          /\ \A k \in 1..Len(pending) - 1 : pending[k] < pending[k + 1]
          /\ \A k \in 1..Len(pending) : towers[pending[k]].hp > 0
          /\ lastCall'.playerId = Head(pending)
          /\ lastCall'.turn = turn
          /\ lastCall'.path = IF pc = "negotiate" THEN "/negotiate" ELSE "/combat"
          /\ \/ pc' = pc /\ pending' = Tail(pending) /\ pending' # <<>>
             \/ /\ pc' = IF pc = "negotiate" THEN "diplomacy" ELSE "process"
                /\ Tail(pending) = <<>>
             \/ pc' \in exits

\* C28: a step makes at most one call and only the health, negotiation and
\* combat loops make calls; in a turn the negotiation phase and then the
\* combat phase each call every tower with hp > 0 once, in ascending tower
\* order, going on to the next tower whatever the result, and never a tower
\* with hp 0.
C28_Calls == [][CallOrder({})]_vars

\* The same with the phase allowed to end in the exit of the process
C28_CallsOrThrow == [][CallOrder({"crash"})]_vars

\* The negotiation phase ended with an alive tower after the caller not called
C28_Witness ==
    /\ pc = "crash" /\ lastCall.path = "/negotiate"
    /\ \E j \in PlayerIds : j > lastCall.playerId /\ towers[j].hp > 0

\* C29: with fewer than 4 addresses the 4 slots are filled by cyclic
\* duplication: in a match started with MinArgs = 2 addresses a, b, slot i
\* has the address of slot ((i-1) mod 2)+1, so the slots are a, b, a, b.
C29_Cyclic ==
    \A i \in PlayerIds : towers[i].botUrl = towers[((i - 1) % MinArgs) + 1].botUrl

\* What the padding gives for two addresses: a, b, a, a
C29_FirstRepeated ==
    \A i \in PlayerIds :
        towers[i].botUrl = towers[IF i <= MinArgs THEN i ELSE 1].botUrl

\* A match started with two different addresses
C29_Witness ==
    /\ towers[1].botUrl # towers[2].botUrl
    /\ towers[3].botUrl = towers[1].botUrl /\ towers[4].botUrl = towers[1].botUrl
    /\ turn >= 1

\* What a list of the bot's actions costs a tower of a level
RECURSIVE BotCost(_, _)
BotCost(actions, level) ==
    IF actions = <<>> THEN 0
    ELSE (IF Head(actions).type = "armor" THEN Head(actions).amount.twice \div 2
          ELSE IF Head(actions).type = "attack"
          THEN Head(actions).troopCount.twice \div 2
          ELSE upgradeCost(level))
         + BotCost(Tail(actions), level)

\* C30: for every combat request with non-negative integer resources, the
\* armor amounts, attack troopCounts and upgrade costs of the actions that
\* computeCombatActions returns add up to at most playerTower.resources.
C30_WithinResources ==
    pc = "answered" =>
        BotCost(lastResult.data, lastCall.playerTower.level)
            <= lastCall.playerTower.resources

\* The bot answered with a kill shot, an upgrade and armor, three actions
\* that cost all it owns
C30_Witness ==
    /\ pc = "answered"
    /\ Len(lastResult.data) >= 3
    /\ \E k \in 1..Len(lastResult.data) : lastResult.data[k].type = "upgrade"
    /\ BotCost(lastResult.data, lastCall.playerTower.level)
          = lastCall.playerTower.resources

\* The enemies of a request, by index, that are alive and that the
\* resources of the request's tower can kill
KillableIn(request) ==
    {k \in 1..Len(request.enemyTowers) :
        /\ request.enemyTowers[k].hp > 0
        /\ request.enemyTowers[k].hp + request.enemyTowers[k].armor
              <= request.playerTower.resources}

\* The enemies of a request, by index, that attacked its tower
AttackedMe(request) ==
    {k \in 1..Len(request.enemyTowers) :
        \E n \in 1..Len(request.previousAttacks) :
            /\ request.previousAttacks[n].action.targetId = request.playerTower.playerId
            /\ request.previousAttacks[n].playerId = request.enemyTowers[k].playerId}

\* The positions of the attacks in a list of actions
AttacksIn(actions) == {n \in 1..Len(actions) : actions[n].type = "attack"}

\* C31: whenever some alive enemy has hp + armor <= the bot's resources, the
\* first attack that computeCombatActions returns targets such an enemy with
\* exactly its hp + armor as troopCount, and if a killable enemy attacked the
\* bot in previousAttacks the target is one of those attackers.
C31_KillShot ==
    (pc = "answered" /\ KillableIn(lastCall) # {}) =>
        /\ AttacksIn(lastResult.data) # {}
        /\ LET first == lastResult.data[CHOOSE n \in AttacksIn(lastResult.data) :
                             \A m \in AttacksIn(lastResult.data) : n <= m]
           IN \E k \in KillableIn(lastCall) :
                 /\ first.targetId = Num(lastCall.enemyTowers[k].playerId)
                 /\ first.troopCount
                       = Num(lastCall.enemyTowers[k].hp + lastCall.enemyTowers[k].armor)
                 /\ KillableIn(lastCall) \cap AttackedMe(lastCall) # {}
                       => k \in AttackedMe(lastCall)

\* The bot killed an enemy that had attacked it although another enemy was
\* cheaper to kill and had not
C31_Witness ==
    /\ pc = "answered"
    /\ \E k \in KillableIn(lastCall) \cap AttackedMe(lastCall) :
          /\ lastResult.data # <<>>
          /\ lastResult.data[1].type = "attack"
          /\ lastResult.data[1].targetId = Num(lastCall.enemyTowers[k].playerId)
          /\ \E j \in KillableIn(lastCall) \ AttackedMe(lastCall) :
                lastCall.enemyTowers[j].hp + lastCall.enemyTowers[j].armor
                  < lastCall.enemyTowers[k].hp + lastCall.enemyTowers[k].armor

\* A step that applies the one accepted upgrade of a tower that asked for
\* nothing else charges the tower the entry of a table at its level
ChargesBy(table) ==
    \A i \in PlayerIds :
        (/\ pc = "process" /\ pending # <<>> /\ Head(pending) = i
         /\ allActions[i] = <<UpgradeAction>>
         /\ towers[i].level < MAX_LEVEL)
        => /\ towers'[i].level = towers[i].level + 1
           /\ towers[i].resources - towers'[i].resources = table[towers[i].level]
           /\ upgradeCost(towers[i].level) = table[towers[i].level]

RECURSIVE CostOfType(_, _, _)
CostOfType(actions, type, upgrade) ==
    IF actions = <<>> THEN 0
    ELSE (IF Head(actions).type # type THEN 0
          ELSE IF type = "armor" THEN Head(actions).amount
          ELSE IF type = "attack" THEN Head(actions).troopCount
          ELSE upgrade)
         + CostOfType(Tail(actions), type, upgrade)

C33_Step ==
    pc = "process" /\ pending # <<>> =>
        LET i == Head(pending)
            accepted == allActions[i]
            before == towers[i]
            after == towers'[i]
        IN /\ after.armor = before.armor + CostOfType(accepted, "armor", 0)
           /\ after.level = before.level + CountType(accepted, "upgrade")
           /\ CountType(accepted, "upgrade") <= 1
           /\ before.resources - after.resources
                 = CostOfType(accepted, "armor", 0)
                   + CostOfType(accepted, "upgrade", upgradeCost(before.level))
                   + CostOfType(accepted, "attack", 0)
           /\ after.hp = before.hp
           /\ accepted = <<>> => after = before
           /\ \A j \in PlayerIds \ {i} : towers'[j] = towers[j]

\* C33: when a tower's accepted actions are applied, its armor grows by the
\* accepted armor amount, its level by 1 for an accepted upgrade, and its
\* resources fall by the accepted armor amount plus the upgrade cost at the
\* level before the upgrade plus all accepted troopCounts; a tower with no
\* accepted actions keeps armor, level and resources.
C33_Applied == [][C33_Step]_vars

\* Tower 2 had an armor action, an upgrade and an attack accepted and they
\* were applied: level 2, armor 30 and nothing left of its 100
C33_Witness ==
    /\ pc = "resolve"
    /\ CountType(allActions[2], "armor") = 1
    /\ CountType(allActions[2], "upgrade") = 1
    /\ CountType(allActions[2], "attack") = 1
    /\ towers[2].level = 2 /\ towers[2].armor = 30 /\ towers[2].resources = 0

\* The k-th action of a submission is one that is accepted if only the
\* actions accepted before it count: an object of a known type with valid
\* fields, its slot or target not taken by an accepted action, and its cost
\* within what the accepted actions leave of the tower's resources
FitsAfterAccepted(raw, k, tower, ts) ==
    LET prior == LoopAfter(raw, k - 1, tower, ts).validated
        left == tower.resources - TotalCost(prior, tower)
        a == raw[k]
    IN /\ a.isObject
       /\ \/ /\ a.type = "armor"
             /\ IsNumber(a.amount) /\ a.amount.twice > 0
             /\ CountType(prior, "armor") = 0
             /\ a.amount.twice \div 2 <= left
          \/ /\ a.type = "upgrade"
             /\ CountType(prior, "upgrade") = 0
             /\ tower.level < MAX_LEVEL
             /\ upgradeCost(tower.level) <= left
          \/ /\ a.type = "attack"
             /\ IsNumber(a.targetId)
             /\ IsNumber(a.troopCount) /\ a.troopCount.twice > 0
             /\ \E p \in PlayerIds \ {tower.playerId} :
                    /\ a.targetId.twice = 2 * p /\ ts[p].hp > 0
                    /\ \A n \in 1..Len(prior) :
                          prior[n].type = "attack" => prior[n].targetId # p
             /\ a.troopCount.twice \div 2 <= left

\* C34: a rejected action uses up no slot: an armor or upgrade action, or an
\* attack on a target, is accepted whenever it is valid, affordable after the
\* actions accepted before it, and no armor action, upgrade or attack on that
\* target was accepted before it, whatever was rejected before it.
C34_SlotsStayOpen ==
    (pc = "collect" /\ lastCall.playerId = 2 /\ lastResult.isArray) =>
        \A k \in 1..Len(lastResult.data) :
            FitsAfterAccepted(lastResult.data, k, towers[2], towers)
                => AcceptedAt(lastResult.data, k, towers[2], towers)

\* With 50 to spend, 30 of armor was accepted, an attack on tower 1 with 30
\* was rejected for its cost and a later attack on tower 1 with 20 accepted
C34_Witness ==
    /\ pc = "collect" /\ lastCall.playerId = 2
    /\ towers[2].resources = 50
    /\ lastResult.data = <<RawArmor(Num(30)), RawAttack(Num(1), Num(30)),
                           RawAttack(Num(1), Half(41))>>
    /\ allActions[2] = <<ArmorAction(30), AttackAction(1, 20)>>

\* The towers of ts that are alive
AliveIn(ts) == {i \in PlayerIds : ts[i].hp > 0}

\* The winner is set by the check for a winner alone and is the only tower
\* alive after the fatigue step, or none; a tower alone after the attacks
\* that the fatigue step kills is followed by a match over without a winner
C35_Step ==
    /\ winner' # winner => pc = "check"
    /\ (pc = "check" /\ pc' = "over") =>
          /\ towers' = towers
          /\ \/ AliveIn(towers) = {winner'}
             \/ AliveIn(towers) = {} /\ winner' = 0
    /\ (pc = "fatigue" /\ Cardinality(AliveIn(towers)) = 1
          /\ \A i \in AliveIn(towers) : towers[i].hp <= fatigueDamage(turn)) =>
          (pc' = "check" /\ AliveIn(towers') = {} /\ winner' = 0)
    /\ (pc = "check" /\ AliveIn(towers) = {}) => (pc' = "over" /\ winner' = 0)

\* C35: the winner is decided only from the alive set after the turn's
\* fatigue step: a tower that is the sole survivor of the turn's attacks but
\* whose hp the same turn's fatigue brings to 0 is not declared winner, and
\* the match ends as a draw.
C35_AfterFatigue == [][C35_Step]_vars

\* A draw in which the last tower to fall made all of the turn's attacks and
\* every other tower that fell in the turn comes after it in tower order but
\* before it in the records: those fell to its attacks, it fell to fatigue
C35_Witness ==
    /\ pc = "over" /\ winner = 0 /\ AliveIn(towers) = {}
    /\ previousAttacks # <<>>
    /\ eliminations # <<>>
    /\ LET n == Len(eliminations)
           a == eliminations[n].tower
       IN /\ eliminations[n].turn = turn
          /\ \A k \in 1..Len(previousAttacks) : previousAttacks[k].playerId = a
          /\ \E k \in 1..(n - 1) : eliminations[k].turn = turn
          /\ \A k \in 1..(n - 1) :
                eliminations[k].turn = turn => eliminations[k].tower > a

\* The fatigue of the turns up to t added up
RECURSIVE cumulativeFatigue(_)
cumulativeFatigue(t) == IF t <= 0 THEN 0 ELSE fatigueDamage(t) + cumulativeFatigue(t - 1)

\* No tower's hp goes up, no tower outlives the fatigue of the turns played,
\* no turn after the turn whose fatigue adds up to STARTING_HP begins, and
\* the match leaves the loop by the given exits alone
EndsByFatigue(exits) ==
    /\ \A i \in PlayerIds : towers'[i].hp <= towers[i].hp
    /\ \A i \in PlayerIds :
          towers'[i].hp <= Max(0, STARTING_HP - cumulativeFatigue(turn' - 1))
    /\ cumulativeFatigue(FATIGUE_START_TURN + 5) >= STARTING_HP
    /\ turn' <= FATIGUE_START_TURN + 5
    /\ pc' # "limit"
    /\ pc' \in {"over", "crash"} => pc' \in exits
    /\ pc' = "over" => Cardinality({i \in PlayerIds : towers'[i].hp > 0}) <= 1

\* C36: every match that passes the health checks ends as Winner or Draw at
\* turn 30 or earlier, for any agent replies: hp starts at 100 and never
\* increases, the fatigue of turns 25..30 adds up to at least 100, and the
\* turn limit of 100 is never reached.
C36_EndsByTurn30 == [][EndsByFatigue({"over"})]_vars

\* What holds: the same with the engine's exit on a thrown error allowed
C36_EndsOrThrows == [][EndsByFatigue({"over", "crash"})]_vars

\* A match of four agents that do nothing, over at turn 30 as a draw
C36_Witness ==
    /\ pc = "over" /\ winner = 0 /\ turn = FATIGUE_START_TURN + 5
    /\ eliminations # <<>>
    /\ \A k \in 1..Len(eliminations) : eliminations[k].turn = turn

\* A tower with hp 0 is left as it is by the step, and a step that calls an
\* agent for a tower's messages or actions calls one of a tower with hp > 0
C37_Step ==
    /\ \A i \in PlayerIds :
          towers[i].hp = 0 =>
              /\ towers'[i].hp = 0
              /\ towers'[i].armor = towers[i].armor
              /\ towers'[i].resources = towers[i].resources
              /\ towers'[i].level = towers[i].level
    /\ pc \in {"negotiate", "collect"} =>
          /\ lastCall'.playerId \in PlayerIds
          /\ towers[lastCall'.playerId].hp > 0
    /\ pc = "process" =>
          \A i \in PlayerIds : towers[i].hp = 0 => allActions[i] = <<>>

\* C37: once a tower's hp has reached 0, its hp, armor, resources and level
\* never change again in any later step: it gets no income, is asked for no
\* actions, is not damaged by attacks or fatigue, and stays at hp 0.
C37_FallenUntouched == [][C37_Step]_vars

\* A fatigue turn has been played to its check with a tower that fell in an
\* earlier turn, holding resources, next to a tower still alive
C37_Witness ==
    /\ pc = "check" /\ turn >= FATIGUE_START_TURN
    /\ previousAttacks # <<>>
    /\ \E i, j \in PlayerIds :
          /\ towers[i].hp = 0 /\ towers[i].resources > 0
          /\ \E k \in 1..Len(eliminations) :
                eliminations[k].tower = i /\ eliminations[k].turn < turn
          /\ towers[j].hp > 0

\* The attack loop run over a whole queue: the towers and the elimination
\* records it leaves
RECURSIVE resolveAttacks(_, _, _)
resolveAttacks(g, queue, t) ==
    IF queue = <<>> THEN g
    ELSE LET target == Head(queue).action.targetId IN
         IF target \in PlayerIds /\ isAlive(g.towers[target])
         THEN LET hit == damageTower(g.towers[target], Head(queue).action.troopCount)
              IN resolveAttacks(
                     [towers |-> [g.towers EXCEPT ![target] = hit],
                      eliminations |-> IF hit.hp <= 0
                                       THEN recordElimination(g.eliminations, target, t)
                                       ELSE g.eliminations],
                     Tail(queue), t)
         ELSE resolveAttacks(g, Tail(queue), t)

\* The attacks of the queue that the loop has still to resolve
RestOf(queue, at) == SubSeq(queue, at, Len(queue))

\* The towers of the records written after the first n
RecordedAfter(elims, n) == {elims[k].tower : k \in (n + 1)..Len(elims)}

\* From any point of the attack loop on, every order of the attacks still to
\* resolve leaves every tower as the queue's own order does, with records
\* for the same towers, one each; and the loop's step is the first step of
\* the resolution in the queue's order
C38_Step ==
    (pc = "resolve" /\ cursor <= Len(attacks)) =>
        LET g == [towers |-> towers, eliminations |-> eliminations]
            rest == RestOf(attacks, cursor)
            inOrder == resolveAttacks(g, rest, turn)
        IN /\ resolveAttacks([towers |-> towers', eliminations |-> eliminations'],
                             RestOf(attacks', cursor'), turn') = inOrder
           /\ \A f \in Permutations(1..Len(rest)) :
                 LET other == resolveAttacks(g, [k \in 1..Len(rest) |-> rest[f[k]]], turn)
                 IN /\ other.towers = inOrder.towers
                    /\ Len(other.eliminations) = Len(inOrder.eliminations)
                    /\ RecordedAfter(other.eliminations, Len(eliminations))
                          = RecordedAfter(inOrder.eliminations, Len(eliminations))
                    /\ Cardinality(RecordedAfter(other.eliminations, Len(eliminations)))
                          = Len(other.eliminations) - Len(eliminations)
                    /\ SubSeq(other.eliminations, 1, Len(eliminations)) = eliminations

\* C38: resolving a turn's attack queue in any permutation of its order yields
\* the same hp and armor for every tower and the same set of towers
\* eliminated that turn; only the order of the turn's elimination records
\* can differ.
C38_OrderFree == [][C38_Step]_vars

\* A queue of four attacks has been resolved: towers 1 and 2 fell in it, and
\* tower 2 was the target of two attacks with troops
C38_Witness ==
    /\ pc = "fatigue" /\ Len(previousAttacks) = 4
    /\ towers[1].hp = 0 /\ towers[2].hp = 0 /\ towers[3].hp > 0
    /\ Len(eliminations) = 3
    /\ \E k, m \in 1..4 :
          /\ k < m
          /\ previousAttacks[k].action.targetId = 2
          /\ previousAttacks[m].action.targetId = 2
          /\ previousAttacks[k].action.troopCount > 0
          /\ previousAttacks[m].action.troopCount > 0

\* Every accepted armor action and attack of the list costs at least lowest
CostsAtLeast(actions, lowest) ==
    \A k \in 1..Len(actions) :
        /\ actions[k].type = "armor" => actions[k].amount >= lowest
        /\ actions[k].type = "attack" => actions[k].troopCount >= lowest

\* C39: every action validateActions accepts has a strictly positive integer
\* cost: an accepted armor action has amount >= 1 and an accepted attack has
\* troopCount >= 1, for every positive numeric input, those below 1 included.
C39_PositiveCost ==
    (pc = "collect" /\ lastCall.playerId = 2 /\ lastResult.isArray) =>
        CostsAtLeast(allActions[2], 1)

\* What holds: no accepted amount or troopCount is negative
C39_NonNegativeCost ==
    (pc = "collect" /\ lastCall.playerId = 2 /\ lastResult.isArray) =>
        CostsAtLeast(allActions[2], 0)

\* An armor action of amount 0.5 was accepted, as armor of amount 0
C39_Witness ==
    /\ pc = "collect" /\ lastCall.playerId = 2
    /\ lastResult.data = <<RawArmor(Half(1))>>
    /\ allActions[2] = <<ArmorAction(0)>>

\* The validated action is the submitted one, field by field
SameAction(raw, kept) ==
    /\ raw.isObject /\ raw.type = kept.type
    /\ kept.type = "armor" => raw.amount = Num(kept.amount)
    /\ kept.type = "attack" =>
          (raw.targetId = Num(kept.targetId) /\ raw.troopCount = Num(kept.troopCount))

\* The call of the armor-control agent of the tower whose turn it is in the
\* collecting loop: the reply is an array of at most one action, which
\* validateActions keeps as it is; the action costs more than 0 and no more
\* than the tower owns, an upgrade comes from a tower below level 3, and an
\* attack is on another tower with hp > 0
C40_Step ==
    (pc = "collect" /\ pending # <<>>
       /\ towers[Head(pending)].botUrl = "armorControl") =>
        LET i == Head(pending)
            reply == lastResult'.data
            kept == allActions'[i]
        IN /\ lastCall' = CombatRequest(i)
           /\ lastResult'.success /\ lastResult'.isArray
           /\ reply = armorControlCombat(CombatRequest(i))
           /\ Len(reply) <= 1
           /\ Len(kept) = Len(reply)
           /\ \A k \in 1..Len(reply) :
                 /\ SameAction(reply[k], kept[k])
                 /\ ActionCost(kept[k], towers[i]) > 0
                 /\ ActionCost(kept[k], towers[i]) <= towers[i].resources
                 /\ kept[k].type = "upgrade" => towers[i].level < 3
                 /\ kept[k].type = "attack" =>
                       /\ kept[k].targetId \in PlayerIds \ {i}
                       /\ towers[kept[k].targetId].hp > 0

\* C40: every action list the active armor-control strategy returns for a
\* combat request built by the engine is accepted unchanged by validateActions:
\* it holds at most one action, whose cost is positive and at most the
\* tower's resources; an upgrade is proposed only below level 3, and an
\* attack targets an alive tower other than the bot itself.
C40_AcceptedUnchanged == [][C40_Step]_vars

\* The armor-control agent of a tower at level 3 that was attacked in the
\* turn before has answered with an attack, which was accepted
C40_Witness ==
    /\ pc \in {"collect", "process"} /\ lastCall.path = "/combat"
    /\ towers[lastCall.playerId].botUrl = "armorControl"
    /\ towers[lastCall.playerId].level = 3
    /\ \E k \in 1..Len(previousAttacks) :
          previousAttacks[k].action.targetId = lastCall.playerId
    /\ Len(allActions[lastCall.playerId]) = 1
    /\ allActions[lastCall.playerId][1].type = "attack"
    /\ allActions[lastCall.playerId][1].troopCount
          = towers[lastCall.playerId].resources

====
